---- MODULE Spec2Model ----
(***************************************************************************)
(* Kafka-aware reverse tunnel (conduktor/bore-kafka).                      *)
(*                                                                         *)
(* Spec    : KafkaProxy of src/src/kafka.rs -- the pool `connections`,     *)
(*           start, add_connection, open_new_broker_connection_if_needed   *)
(*           and adapt_metadata run by concurrent flows.                   *)
(* SpecPS  : ProxyState of src/src/proxy_state.rs -- insert_broker and the *)
(*           free function add_connection.                                 *)
(* SpecFlow: the two halves of kafka_proxy over framed byte streams with   *)
(*           the per-flow inflight table (KafkaServerCodec).               *)
(***************************************************************************)
EXTENDS Integers, Sequences, FiniteSets, TLC

\* ------------------------------------------------------------------ bounds
MaxAdapt == 2        \* metadata responses forwarded per flow
MaxClients == 3      \* control connections the rendezvous grants
MaxFrames == 4       \* frames the Kafka clients and brokers send (SpecFlow)
MaxMsgs == 3         \* messages a listen loop receives (SpecTunnel)

\* --------------------------------------------------------- program constants
MinPort == 1024      \* Server --min-port default
U16 == 65536         \* width of KafkaBroker.port (u16)
MetadataKey == 3     \* ApiKey::MetadataKey as i16

\* ------------------------------------------------------------------- values
\* Host names are carried as small integer codes so that a frame is a plain
\* sequence of integers; To is KafkaProxy.to, the public rendezvous host.
To == 100
KafkaPort == 9092

Flows == {1, 2}                  \* concurrent data flows sharing one pool
Owners == {0} \cup Flows         \* 0 is the caller of start()
RemotePorts == MinPort..(MinPort + MaxClients - 1)

VARIABLES
    connections,   \* KafkaProxy.connections : KafkaBroker -> u16
    clients,       \* tunnel clients built by Client::new, in creation order
    pc,            \* per owner: where its task stands
    item,          \* per flow: the decoded KafkaResponse::Metadata being adapted
    adds,          \* per owner: the add_connection futures under join_all
    outm,          \* per flow: the MetadataResponse adapt_metadata returned
    toClient,      \* per flow: frames written to the remote sink
    remoteIn,      \* per flow: bytes waiting on remote_read (requests)
    localIn,       \* per flow: bytes waiting on local_read (responses)
    r2l,           \* per flow: the frame remote_to_local holds, or <<>>
    toBroker,      \* per flow: frames written to local_write
    inflight,      \* per flow: KafkaServerCodec.inflight
    l2r,           \* per flow: the undecoded frame local_to_remote holds
    sent,          \* per flow: frames the Kafka client / the broker sent (history)
    hist,          \* per flow: frames read so far by either half (history)
    auth,          \* KafkaProxy.auth / Client.auth is Some(_)
    cn,            \* the Client::new call of the bootstrap tunnel, step by step
    listen,        \* Client::listen of the bootstrap tunnel
    tasks,         \* the handle_connection tasks that listen spawned
    elapsed,       \* seconds the pending recv on the control channel has waited
    ret,           \* what start() returned
    lock           \* KafkaProxy.connections, the RwLock: who holds a guard

flowVars == <<remoteIn, localIn, r2l, toBroker, inflight, l2r, sent, hist>>

\* The control channel of the bootstrap tunnel; stepped in SpecTunnel, where
\* Client::new and Client::listen are followed message by message.
ctlVars == <<auth, cn, listen, tasks, elapsed>>

vars == <<connections, clients, pc, item, adds, outm, toClient, flowVars, ctlVars, ret, lock>>

\* ------------------------------------------------------------ KafkaBroker
KafkaBroker(host, port) == [host |-> host, port |-> port]

\* impl From<&MetadataResponseBroker> for KafkaBroker: `broker.port as u16`
KafkaBrokerFrom(broker) == KafkaBroker(broker.host, broker.port % U16)

B1 == KafkaBroker(1, KafkaPort)
B2 == KafkaBroker(2, KafkaPort)
B3 == KafkaBroker(3, KafkaPort)
Bootstrap == B1

\* A MetadataResponseBroker as the broker sent it.
Br(id, url, rack) == [node_id |-> id, host |-> url.host, port |-> url.port, rack |-> rack]

\* MetadataResponse: brokers is the IndexMap in insertion order.
Md(brokers, controller, cluster, topics) ==
    [brokers |-> brokers, controller_id |-> controller,
     cluster_id |-> cluster, topics |-> topics]

Header(c) == [correlation_id |-> c]

\* KafkaResponse::Metadata(version, header, response)
Metadata(version, header, response) ==
    [version |-> version, header |-> header, response |-> response]

NoItem == Metadata(0, Header(0), Md(<<>>, 0, 0, 0))

\* The metadata responses a broker of the private cluster sends.
\* (cluster_id is not on the wire before version 2 and decodes to 0.)
Md1 == Md(<<Br(1, B1, 0)>>, 1, 0, 5)
Md2 == Md(<<Br(1, B1, 0), Br(2, B2, 1)>>, 2, 7, 5)

DecodedItems == {Metadata(1, Header(1), Md1), Metadata(9, Header(2), Md2)}

\* The metadata response of a cluster of three brokers.
Md3 == Md(<<Br(1, B1, 0), Br(2, B2, 1), Br(3, B3, 0)>>, 2, 7, 5)

Range(s) == {s[i] : i \in DOMAIN s}

\* ------------------------------------------------------------- HashMap
\* HashMap::insert: adds the key or overwrites the value already there.
Insert(m, k, v) == [x \in (DOMAIN m) \cup {k} |-> IF x = k THEN v ELSE m[x]]

EmptyMap == [x \in {} |-> 0]

\* ------------------------------------------------- rendezvous (external)
\* Hello(0) asks for any free port >= the configured minimum: the ports of
\* the control connections it already serves are taken.  Ports are only ever
\* compared for equality, so granting the lowest free one stands for any.
FreePorts == RemotePorts \ {clients[i].remote_port : i \in DOMAIN clients}

GrantedPort(p) == p \in FreePorts /\ \A q \in FreePorts : p <= q

\* --------------------------------------------------------- add_connection
\* One add_connection(url) future: "new" = awaiting Client::new,
\* "connected" = Client::new returned Ok(client), "inserted" = the pool holds
\* url -> remote_port, "done" = listen_boxed spawned and Ok(remote_port)
\* returned, "err" = Client::new failed and `?` returned the error.
NewAdd(url) == [url |-> url, st |-> "new", remote_port |-> 0, client |-> 0]

AddFinished(a) == a.st \in {"done", "err"}

\* Client::new(&url.host, url.port, ..) -> Ok(Client{remote_port: p, ..})
ClientNewOk(o, i, p) ==
    /\ i \in DOMAIN adds[o]
    /\ adds[o][i].st = "new"
    /\ Len(clients) < MaxClients
    /\ GrantedPort(p)
    /\ clients' = Append(clients,
           [local_host |-> adds[o][i].url.host, local_port |-> adds[o][i].url.port,
            remote_port |-> p, listening |-> FALSE])
    /\ adds' = [adds EXCEPT ![o][i].st = "connected", ![o][i].remote_port = p,
                            ![o][i].client = Len(clients) + 1]
    /\ UNCHANGED <<connections, pc, item, outm, toClient, flowVars, ctlVars, ret, lock>>

\* Client::new(..) -> Err(_): dial failure or timeout, auth mismatch,
\* Error(msg), unexpected message or EOF.
ClientNewErr(o, i) ==
    /\ i \in DOMAIN adds[o]
    /\ adds[o][i].st = "new"
    /\ adds' = [adds EXCEPT ![o][i].st = "err"]
    /\ UNCHANGED <<connections, clients, pc, item, outm, toClient, flowVars,
                   ctlVars, ret, lock>>

\* Faulty variant: the port of the broker is recorded, not the remote port.
AddConnectionInsertLocalPort(o, i) ==
    /\ i \in DOMAIN adds[o]
    /\ adds[o][i].st = "connected"
    /\ connections' = Insert(connections, adds[o][i].url, adds[o][i].url.port)
    /\ adds' = [adds EXCEPT ![o][i].st = "inserted"]
    /\ UNCHANGED <<clients, pc, item, outm, toClient, flowVars, ctlVars, ret, lock>>

\* self.connections.write().unwrap().insert(url, remote_port)
AddConnectionInsert(o, i) ==
    /\ i \in DOMAIN adds[o]
    /\ adds[o][i].st = "connected"
    /\ connections' = Insert(connections, adds[o][i].url, adds[o][i].remote_port)
    /\ adds' = [adds EXCEPT ![o][i].st = "inserted"]
    /\ UNCHANGED <<clients, pc, item, outm, toClient, flowVars, ctlVars, ret, lock>>

\* tokio::spawn(client.listen_boxed()); Ok(remote_port)
AddConnectionSpawn(o, i) ==
    /\ i \in DOMAIN adds[o]
    /\ adds[o][i].st = "inserted"
    /\ clients' = [clients EXCEPT ![adds[o][i].client].listening = TRUE]
    /\ adds' = [adds EXCEPT ![o][i].st = "done"]
    /\ UNCHANGED <<connections, pc, item, outm, toClient, flowVars, ctlVars, ret, lock>>

\* ------------------------------------------------------------------ start
\* start(): parses the bootstrap server and awaits add_connection(url).
Start ==
    /\ pc[0] = "start"
    /\ adds' = [adds EXCEPT ![0] = <<NewAdd(Bootstrap)>>]
    /\ pc' = [pc EXCEPT ![0] = "join"]
    /\ UNCHANGED <<connections, clients, item, outm, toClient, flowVars,
                   ctlVars, ret, lock>>

\* Faulty variant: the port asked for in Hello(0) is formatted, not the one
\* the rendezvous assigned.
StartResultRequested(to, remote_port) == [host |-> to, port |-> 0]

\* format!("{}:{}", &this.to, remote_port): the string by its two fields.
StartResult(to, remote_port) == [host |-> to, port |-> remote_port]

\* start() has not returned Ok(_).
NoResult == [host |-> 0, port |-> 0]

\* `add_connection(url).await?` then Ok(format!("{}:{}", to, remote_port))
StartReturn ==
    /\ pc[0] = "join"
    /\ AddFinished(adds[0][1])
    /\ pc' = [pc EXCEPT ![0] = IF adds[0][1].st = "done" THEN "returned" ELSE "failed"]
    /\ ret' = IF adds[0][1].st = "done"
              THEN StartResult(To, adds[0][1].remote_port)
              ELSE NoResult
    /\ UNCHANGED <<connections, clients, item, adds, outm, toClient, flowVars, ctlVars, lock>>

\* --------------------------------------------------------- adapt_metadata
\* Phase 1 scan, under the read lock: the brokers of the response whose
\* KafkaBroker is not a key of the pool, in response order.
UnknownBrokers(conn, brokers) ==
    LET urls == [i \in DOMAIN brokers |-> KafkaBrokerFrom(brokers[i])]
    IN  SelectSeq(urls, LAMBDA u : u \notin DOMAIN conn)

\* Faulty variant: the key is built after host was overwritten (a miss
\* yields 0).
AdaptBrokerKeyAfterOverwrite(conn, broker) ==
    LET url == KafkaBroker(To, broker.port % U16)
    IN  [broker EXCEPT !.host = To,
                       !.port = IF url \in DOMAIN conn THEN conn[url] ELSE 0]

\* Faulty variant: the rewrite rebuilds the broker and loses its rack.
AdaptBrokerDropsRack(conn, broker) ==
    [broker EXCEPT !.host = To,
                   !.port = conn[KafkaBroker(broker.host, broker.port % U16)],
                   !.rack = 0]

\* Phase 2, one broker: the key is built before host is overwritten.
AdaptBroker(conn, broker) ==
    LET url == KafkaBroker(broker.host, broker.port % U16)
    IN  [broker EXCEPT !.host = To, !.port = conn[url]]

AdaptBrokers(conn, brokers) ==
    [i \in DOMAIN brokers |-> AdaptBroker(conn, brokers[i])]

\* connections.get(&url).unwrap() panics on a broker the pool does not hold.
Phase2Panics(conn, brokers) ==
    \E i \in DOMAIN brokers : KafkaBrokerFrom(brokers[i]) \notin DOMAIN conn

\* A metadata response this agent forwarded earlier and some client or
\* broker hands back to it.
Readapted ==
    {Metadata(item[g].version, item[g].header, outm[g]) :
        g \in {h \in Flows : pc[h] = "idle" /\ Len(toClient[h]) > 0}}

\* local_to_remote received Ok(KafkaResponse::Metadata(..)) and calls
\* adapt_metadata: open_new_broker_connection_if_needed scans the response
\* and starts join_all over add_connection(url) of the unknown brokers.
BeginAdapt(f, it) ==
    /\ item' = [item EXCEPT ![f] = it]
    /\ adds' = [adds EXCEPT ![f] =
           LET unknown == UnknownBrokers(connections, it.response.brokers)
           IN  [i \in DOMAIN unknown |-> NewAdd(unknown[i])]]
    /\ pc' = [pc EXCEPT ![f] = "join"]

Phase1(f, it) ==
    /\ pc[f] = "idle"
    /\ Len(toClient[f]) < MaxAdapt
    /\ \E c \in DOMAIN clients : clients[c].listening
    /\ BeginAdapt(f, it)
    /\ UNCHANGED <<connections, clients, outm, toClient, flowVars, ctlVars, ret, lock>>

\* join_all resolved (its results are dropped); Phase 2 rewrites every
\* broker under one read lock, or panics in the flow's task.
Phase2Ready(f) ==
    /\ pc[f] = "join"
    /\ \A i \in DOMAIN adds[f] : AddFinished(adds[f][i])

Phase2(f) ==
    /\ Phase2Ready(f)
    /\ IF Phase2Panics(connections, item[f].response.brokers)
       THEN /\ pc' = [pc EXCEPT ![f] = "panicked"]
            /\ outm' = outm
       ELSE /\ pc' = [pc EXCEPT ![f] = "encode"]
            /\ outm' = [outm EXCEPT ![f] =
                   [item[f].response EXCEPT
                       !.brokers = AdaptBrokers(connections, item[f].response.brokers)]]
    /\ UNCHANGED <<connections, clients, item, adds, toClient, flowVars,
                   ctlVars, ret, lock>>

\* ----------------------------------------------------------------- encode
\* MetadataResponse::header_version(version)
HeaderVersion(version) == IF version >= 9 THEN 1 ELSE 0

EncodeHeader(header, hv) ==
    <<header.correlation_id>> \o (IF hv >= 1 THEN <<0>> ELSE <<>>)

EncodeBroker(b, version) ==
    <<b.node_id, b.host, b.port>>
        \o (IF version >= 1 THEN <<b.rack>> ELSE <<>>)
        \o (IF version >= 9 THEN <<0>> ELSE <<>>)

RECURSIVE EncodeBrokers(_, _)
EncodeBrokers(brokers, version) ==
    IF brokers = <<>> THEN <<>>
    ELSE EncodeBroker(Head(brokers), version) \o EncodeBrokers(Tail(brokers), version)

EncodeResponse(m, version) ==
    (IF version >= 3 THEN <<0>> ELSE <<>>)
        \o <<Len(m.brokers)>> \o EncodeBrokers(m.brokers, version)
        \o (IF version >= 2 THEN <<m.cluster_id>> ELSE <<>>)
        \o (IF version >= 1 THEN <<m.controller_id>> ELSE <<>>)
        \o <<m.topics>>
        \o (IF version >= 9 THEN <<0>> ELSE <<>>)

\* Faulty variant: header and body are encoded at the newest version the
\* protocol library knows, not at the version of the item.
EncodeMetadataAtNewest(it) ==
    LET bytes == EncodeHeader(it.header, HeaderVersion(12))
                     \o EncodeResponse(it.response, 12)
    IN  <<Len(bytes)>> \o bytes

\* Encoder<KafkaResponse>::encode, the Metadata arm: header and body at the
\* item's version, prefixed by their length.
EncodeMetadata(it) ==
    LET bytes == EncodeHeader(it.header, HeaderVersion(it.version))
                     \o EncodeResponse(it.response, it.version)
    IN  <<Len(bytes)>> \o bytes

\* ----------------------------------------------------------------- decode
SupportedVersions == 0..12

BrokerWidth(version) ==
    3 + (IF version >= 1 THEN 1 ELSE 0) + (IF version >= 9 THEN 1 ELSE 0)

\* Index of the broker count in a frame: after the length, the header and,
\* from version 3 on, throttle_time_ms.
CountAt(version) == 3 + HeaderVersion(version) + (IF version >= 3 THEN 1 ELSE 0)

\* Index of the first field after the broker array.
AfterBrokers(frame, version) ==
    CountAt(version) + 1 + frame[CountAt(version)] * BrokerWidth(version)

ClusterAt(frame, version) == AfterBrokers(frame, version)
ControllerAt(frame, version) ==
    AfterBrokers(frame, version) + (IF version >= 2 THEN 1 ELSE 0)
TopicsAt(frame, version) ==
    ControllerAt(frame, version) + (IF version >= 1 THEN 1 ELSE 0)

\* ResponseHeader::decode and MetadataResponse::decode succeed when the
\* version is one the protocol library knows and the frame holds every field
\* of that version; otherwise they return a decode error.
CanDecode(frame, version) ==
    /\ version \in SupportedVersions
    /\ Len(frame) >= CountAt(version)
    /\ frame[CountAt(version)] >= 0
    /\ Len(frame) >= TopicsAt(frame, version) + (IF version >= 9 THEN 1 ELSE 0)

DecodeBroker(frame, at, version) ==
    [node_id |-> frame[at], host |-> frame[at + 1], port |-> frame[at + 2],
     rack |-> IF version >= 1 THEN frame[at + 3] ELSE 0]

\* Decoder::decode, the Metadata arm: skip the length, then header and body
\* at the version the request registered.
DecodeMetadata(frame, version) ==
    Metadata(version, Header(frame[2]),
        Md([i \in 1..frame[CountAt(version)] |->
                DecodeBroker(frame, CountAt(version) + 1 + (i - 1) * BrokerWidth(version),
                             version)],
           IF version >= 1 THEN frame[ControllerAt(frame, version)] ELSE 0,
           IF version >= 2 THEN frame[ClusterAt(frame, version)] ELSE 0,
           frame[TopicsAt(frame, version)]))

\* forward(sink): the adapted item is encoded and written to remote_write.
Forward(f) ==
    /\ pc[f] = "encode"
    /\ toClient' = [toClient EXCEPT ![f] =
           Append(@, EncodeMetadata(Metadata(item[f].version, item[f].header, outm[f])))]
    /\ pc' = [pc EXCEPT ![f] = "idle"]
    /\ UNCHANGED <<connections, clients, item, adds, outm, flowVars, ctlVars, ret, lock>>

\* ---------------------------------------------------------- specification
\* ServerMessage of the control protocol, and what recv yields besides a
\* message: None (EOF) or an error.
Msg(tag, arg) == [tag |-> tag, arg |-> arg]

EOF == Msg("EOF", 0)
IoErr == Msg("IoErr", 0)
Elapsed == Msg("Elapsed", 0)

\* RwLock::new(..): no read guard, no write guard (owners are 0, 1, 2; -1
\* stands for nobody).
Unlocked == [readers |-> {}, writer |-> 0 - 1]

\* The control channel before Client::new is called.
CtlInit ==
    /\ cn = [st |-> "init", dial |-> "none", sent |-> <<>>, rcvd |-> <<>>]
    /\ listen = [st |-> "none", last |-> Msg("None", 0), n |-> 0, conns |-> <<>>]
    /\ tasks = <<>>
    /\ elapsed = 0

Init ==
    /\ connections = EmptyMap
    /\ clients = <<>>
    /\ pc = [o \in Owners |-> IF o = 0 THEN "start" ELSE "idle"]
    /\ item = [f \in Flows |-> NoItem]
    /\ adds = [o \in Owners |-> <<>>]
    /\ outm = [f \in Flows |-> NoItem.response]
    /\ toClient = [f \in Flows |-> <<>>]
    /\ remoteIn = [f \in Flows |-> <<>>]
    /\ localIn = [f \in Flows |-> <<>>]
    /\ r2l = [f \in Flows |-> <<>>]
    /\ toBroker = [f \in Flows |-> <<>>]
    /\ inflight = [f \in Flows |-> EmptyMap]
    /\ l2r = [f \in Flows |-> <<>>]
    /\ sent = [f \in Flows |-> [req |-> <<>>, resp |-> <<>>]]
    /\ hist = [f \in Flows |-> <<>>]
    /\ auth = FALSE
    /\ CtlInit
    /\ lock = Unlocked
    /\ ret = NoResult

AddConnection ==
    \E o \in Owners : \E i \in 1..3 :
        \/ \E p \in RemotePorts : ClientNewOk(o, i, p)
        \/ ClientNewErr(o, i)
        \/ AddConnectionInsert(o, i)
        \/ AddConnectionSpawn(o, i)

AdaptMetadata ==
    \E f \in Flows :
        \/ \E it \in DecodedItems \cup Readapted : Phase1(f, it)
        \/ Phase2(f)
        \/ Forward(f)

Next ==
    \/ Start
    \/ StartReturn
    \/ AddConnection
    \/ AdaptMetadata

Spec == Init /\ [][Next]_vars

\* =============================================================== SpecFlow
\* kafka_proxy: remote_to_local and local_to_remote of each flow over byte
\* streams.  A stream is a sequence of fields; a frame is its length (the
\* number of fields that follow) and those fields.

\* A request frame: bytes [4..6) api_key, [6..8) api_version, [8..12)
\* correlation_id, then the rest of the request.
Req(api_key, api_version, correlation_id) ==
    <<4, api_key, api_version, correlation_id, 0>>

Requests == {Req(MetadataKey, 1, 1), Req(0, 1, 2)}

\* Response frames: bytes [4..8) correlation_id, then the body.
MdResp == EncodeMetadata(Metadata(1, Header(1), Md(Md2.brokers, 2, 0, 5)))
Responses == {MdResp, <<2, 2, 0>>, <<2, 1, 0>>}

RECURSIVE Flatten(_)
Flatten(frames) ==
    IF frames = <<>> THEN <<>> ELSE Head(frames) \o Flatten(Tail(frames))

\* LengthDelimitedCodec, length_adjustment(4): a frame is there once the
\* length field and the bytes it announces are buffered.
FrameReady(src) == Len(src) >= 1 /\ Len(src) >= src[1] + 1

\* Faulty variant: num_skip(4), the length header is stripped.
TakeFrameStripped(src) == SubSeq(src, 2, src[1] + 1)

\* num_skip(0): the frame keeps its length header.
TakeFrame(src) == SubSeq(src, 1, src[1] + 1)

\* Faulty variant: the read buffer is advanced past the next buffered frame
\* as well.
DropFrameAndNext(src) ==
    LET rest == SubSeq(src, src[1] + 2, Len(src))
    IN  IF Len(rest) >= 1 /\ Len(rest) >= rest[1] + 1
        THEN SubSeq(rest, rest[1] + 2, Len(rest))
        ELSE rest

\* The read buffer is advanced past the frame just taken.
DropFrame(src) == SubSeq(src, src[1] + 2, Len(src))

Live(f) == pc[f] \in {"idle", "join", "encode", "raw"}

FramesSent ==
    LET n[fs \in SUBSET Flows] ==
            IF fs = {} THEN 0
            ELSE LET f == CHOOSE g \in fs : TRUE
                 IN  Len(sent[f].req) + Len(sent[f].resp) + n[fs \ {f}]
    IN  n[Flows]

\* The Kafka client writes a request to the public port of the tunnel.
ClientSends(f, frame) ==
    /\ Live(f)
    /\ FramesSent < MaxFrames
    /\ remoteIn' = [remoteIn EXCEPT ![f] = @ \o frame]
    /\ sent' = [sent EXCEPT ![f].req = Append(@, frame)]
    /\ UNCHANGED <<connections, clients, pc, item, adds, outm, toClient,
                   localIn, r2l, toBroker, inflight, l2r, hist, ctlVars, ret, lock>>

\* The broker writes a response to the local socket.
BrokerSends(f, frame) ==
    /\ Live(f)
    /\ FramesSent < MaxFrames
    /\ localIn' = [localIn EXCEPT ![f] = @ \o frame]
    /\ sent' = [sent EXCEPT ![f].resp = Append(@, frame)]
    /\ UNCHANGED <<connections, clients, pc, item, adds, outm, toClient,
                   remoteIn, r2l, toBroker, inflight, l2r, hist, ctlVars, ret, lock>>

Event(kind, api_key, correlation_id, decoded, frame) ==
    [kind |-> kind, api_key |-> api_key, correlation_id |-> correlation_id,
     decoded |-> decoded, frame |-> frame]

\* Faulty variant: every request is registered, whatever its api key.
RegistersAnyRequest(bytes) == TRUE

\* if api_key == ApiKey::MetadataKey as i16
Registers(bytes) == bytes[2] = MetadataKey

\* Faulty variant: the entry is not in the table when the frame is handed
\* to the writer.
RegisterDeferred(table, bytes) == table

\* upstream_codec.inflight.insert(correlation_id, RequestKeyAndVersion {
\* api_key: ApiKey::MetadataKey, api_version })
Register(table, bytes) ==
    Insert(table, bytes[4], [api_key |-> MetadataKey, api_version |-> bytes[3]])

\* remote_to_local: source.try_next() yields a frame; a Metadata request
\* registers correlation_id -> (MetadataKey, api_version).
R2LRead(f) ==
    /\ Live(f)
    /\ r2l[f] = <<>>
    /\ FrameReady(remoteIn[f])
    /\ LET bytes == TakeFrame(remoteIn[f])
       IN  /\ r2l' = [r2l EXCEPT ![f] = bytes]
           /\ inflight' = [inflight EXCEPT ![f] =
                  IF Registers(bytes) THEN Register(@, bytes) ELSE @]
           /\ hist' = [hist EXCEPT ![f] =
                  Append(@, Event("req", bytes[2], bytes[4], FALSE, bytes))]
    /\ remoteIn' = [remoteIn EXCEPT ![f] = DropFrame(@)]
    /\ UNCHANGED <<connections, clients, pc, item, adds, outm, toClient,
                   localIn, toBroker, l2r, sent, ctlVars, ret, lock>>

\* remote_to_local: local_write.write_all_buf(&mut bytes)
R2LWrite(f) ==
    /\ Live(f)
    /\ r2l[f] # <<>>
    /\ toBroker' = [toBroker EXCEPT ![f] = Append(@, r2l[f])]
    /\ r2l' = [r2l EXCEPT ![f] = <<>>]
    /\ UNCHANGED <<connections, clients, pc, item, adds, outm, toClient,
                   remoteIn, localIn, inflight, l2r, sent, hist, ctlVars, ret, lock>>

\* Faulty variant: the decoder looks the entry up and leaves it in the table.
InflightKeep(table, correlation_id) == table

\* DashMap::remove(&correlation_id)
InflightRemove(table, correlation_id) ==
    [c \in (DOMAIN table) \ {correlation_id} |-> table[c]]

\* local_to_remote: KafkaServerCodec::decode yields the next item.  A frame
\* whose correlation id is registered is decoded and handed to
\* adapt_metadata (a decode error ends the flow); any other frame is kept
\* as UndecodedResponse(bytes).
L2RDecode(f) ==
    /\ pc[f] = "idle"
    /\ FrameReady(localIn[f])
    /\ LET bytes == TakeFrame(localIn[f])
           correlation_id == bytes[2]
           hit == correlation_id \in DOMAIN inflight[f]
       IN  /\ inflight' = [inflight EXCEPT ![f] = InflightRemove(@, correlation_id)]
           /\ hist' = [hist EXCEPT ![f] =
                  Append(@, Event("resp", 0 - 1, correlation_id, hit, bytes))]
           /\ IF hit
              THEN IF CanDecode(bytes, inflight[f][correlation_id].api_version)
                   THEN /\ BeginAdapt(f,
                              DecodeMetadata(bytes, inflight[f][correlation_id].api_version))
                        /\ l2r' = l2r
                   ELSE /\ pc' = [pc EXCEPT ![f] = "failed"]
                        /\ UNCHANGED <<item, adds, l2r>>
              ELSE /\ pc' = [pc EXCEPT ![f] = "raw"]
                   /\ l2r' = [l2r EXCEPT ![f] = bytes]
                   /\ UNCHANGED <<item, adds>>
    /\ localIn' = [localIn EXCEPT ![f] = DropFrame(@)]
    /\ UNCHANGED <<connections, clients, outm, toClient, remoteIn, r2l, toBroker, sent,
                   ctlVars, ret, lock>>

\* forward(sink), the UndecodedResponse arm: dst.put_slice(&bytes)
ForwardRaw(f) ==
    /\ pc[f] = "raw"
    /\ toClient' = [toClient EXCEPT ![f] = Append(@, l2r[f])]
    /\ l2r' = [l2r EXCEPT ![f] = <<>>]
    /\ pc' = [pc EXCEPT ![f] = "idle"]
    /\ UNCHANGED <<connections, clients, item, adds, outm,
                   remoteIn, localIn, r2l, toBroker, inflight, sent, hist,
                   ctlVars, ret, lock>>

\* The agent after start() returned: the bootstrap tunnel is listening.
InitFlow ==
    /\ connections = (Bootstrap :> MinPort)
    /\ clients = <<[local_host |-> Bootstrap.host, local_port |-> Bootstrap.port,
                    remote_port |-> MinPort, listening |-> TRUE]>>
    /\ pc = [o \in Owners |-> IF o = 0 THEN "returned" ELSE "idle"]
    /\ item = [f \in Flows |-> NoItem]
    /\ adds = [o \in Owners |->
                 IF o = 0 THEN <<[url |-> Bootstrap, st |-> "done",
                                  remote_port |-> MinPort, client |-> 1]>>
                 ELSE <<>>]
    /\ outm = [f \in Flows |-> NoItem.response]
    /\ toClient = [f \in Flows |-> <<>>]
    /\ remoteIn = [f \in Flows |-> <<>>]
    /\ localIn = [f \in Flows |-> <<>>]
    /\ r2l = [f \in Flows |-> <<>>]
    /\ toBroker = [f \in Flows |-> <<>>]
    /\ inflight = [f \in Flows |-> EmptyMap]
    /\ l2r = [f \in Flows |-> <<>>]
    /\ sent = [f \in Flows |-> [req |-> <<>>, resp |-> <<>>]]
    /\ hist = [f \in Flows |-> <<>>]
    /\ auth = FALSE
    /\ CtlInit
    /\ lock = Unlocked
    /\ ret = StartResult(To, MinPort)

KafkaProxyStep ==
    \E f \in Flows :
        \/ \E frame \in Requests : ClientSends(f, frame)
        \/ \E frame \in Responses : BrokerSends(f, frame)
        \/ R2LRead(f)
        \/ R2LWrite(f)
        \/ L2RDecode(f)
        \/ ForwardRaw(f)
        \/ Phase2(f)
        \/ Forward(f)

NextFlow ==
    \/ KafkaProxyStep
    \/ AddConnection

SpecFlow == InitFlow /\ [][NextFlow]_vars

\* ================================================================= SpecPS
\* ProxyState of proxy_state.rs: `connections` is ProxyState.connections,
\* `adds[o]` the brokers task o still has to add, one after the other.

\* ProxyState::insert_broker: self.connections.insert(broker_local_url, 0)
PSInsertBroker(url) ==
    /\ connections' = Insert(connections, url, 0)
    /\ UNCHANGED <<clients, pc, item, adds, outm, toClient, flowVars, ctlVars, ret, lock>>

\* main: add_connection(&proxy_state, parse_bootstrap_server(..)).await
PSMain ==
    /\ pc[0] = "start"
    /\ adds' = [adds EXCEPT ![0] = <<NewAdd(Bootstrap)>>]
    /\ pc' = [pc EXCEPT ![0] = "loop"]
    /\ UNCHANGED <<connections, clients, item, outm, toClient, flowVars,
                   ctlVars, ret, lock>>

\* open_new_broker_connection_if_needed: under the write lock collect the
\* brokers the pool does not contain, then add them one by one.
PSOpenNew(o, brokers) ==
    /\ pc[o] = "idle"
    /\ \E c \in DOMAIN clients : clients[c].listening
    /\ adds' = [adds EXCEPT ![o] =
           LET new == UnknownBrokers(connections, brokers)
           IN  [i \in DOMAIN new |-> NewAdd(new[i])]]
    /\ pc' = [pc EXCEPT ![o] = "loop"]
    /\ UNCHANGED <<connections, clients, item, outm, toClient, flowVars,
                   ctlVars, ret, lock>>

\* The add_connection call the task is in: the first one not yet finished.
PSCurrent(o, i) ==
    /\ pc[o] = "loop"
    /\ i \in DOMAIN adds[o]
    /\ \A j \in 1..(i - 1) : adds[o][j].st = "done"

\* add_connection: under the read lock, return if the broker is known.
PSAddCheck(o, i) ==
    /\ PSCurrent(o, i)
    /\ adds[o][i].st = "new"
    /\ adds' = [adds EXCEPT ![o][i].st =
           IF adds[o][i].url \in DOMAIN connections THEN "done" ELSE "dial"]
    /\ UNCHANGED <<connections, clients, pc, item, outm, toClient, flowVars,
                   ctlVars, ret, lock>>

\* Client::new(..).await.unwrap() -> client
PSClientNewOk(o, i, p) ==
    /\ PSCurrent(o, i)
    /\ adds[o][i].st = "dial"
    /\ Len(clients) < MaxClients
    /\ GrantedPort(p)
    /\ clients' = Append(clients,
           [local_host |-> adds[o][i].url.host, local_port |-> adds[o][i].url.port,
            remote_port |-> p, listening |-> FALSE])
    /\ adds' = [adds EXCEPT ![o][i].st = "connected", ![o][i].remote_port = p,
                            ![o][i].client = Len(clients) + 1]
    /\ UNCHANGED <<connections, pc, item, outm, toClient, flowVars, ctlVars, ret, lock>>

\* Client::new(..).await.unwrap() panics: the calling task dies.
PSClientNewErr(o, i) ==
    /\ PSCurrent(o, i)
    /\ adds[o][i].st = "dial"
    /\ adds' = [adds EXCEPT ![o][i].st = "err"]
    /\ pc' = [pc EXCEPT ![o] = "panicked"]
    /\ UNCHANGED <<connections, clients, item, outm, toClient, flowVars,
                   ctlVars, ret, lock>>

\* tokio::spawn(client.listen_boxed())
PSSpawn(o, i) ==
    /\ PSCurrent(o, i)
    /\ adds[o][i].st = "connected"
    /\ clients' = [clients EXCEPT ![adds[o][i].client].listening = TRUE]
    /\ adds' = [adds EXCEPT ![o][i].st = "spawned"]
    /\ UNCHANGED <<connections, pc, item, outm, toClient, flowVars, ctlVars, ret, lock>>

\* state.write().unwrap().connections.insert(url, port)
PSInsert(o, i) ==
    /\ PSCurrent(o, i)
    /\ adds[o][i].st = "spawned"
    /\ connections' = Insert(connections, adds[o][i].url, adds[o][i].remote_port)
    /\ adds' = [adds EXCEPT ![o][i].st = "done"]
    /\ UNCHANGED <<clients, pc, item, outm, toClient, flowVars, ctlVars, ret, lock>>

\* Every add_connection of the task returned.
PSReturn(o) ==
    /\ pc[o] = "loop"
    /\ \A i \in DOMAIN adds[o] : adds[o][i].st = "done"
    /\ pc' = [pc EXCEPT ![o] = IF o = 0 THEN "returned" ELSE "idle"]
    /\ adds' = [adds EXCEPT ![o] = <<>>]
    /\ UNCHANGED <<connections, clients, item, outm, toClient, flowVars,
                   ctlVars, ret, lock>>

PSAddConnection ==
    \E o \in Owners : \E i \in 1..2 :
        \/ PSAddCheck(o, i)
        \/ \E p \in RemotePorts : PSClientNewOk(o, i, p)
        \/ PSClientNewErr(o, i)
        \/ PSSpawn(o, i)
        \/ PSInsert(o, i)

NextPS ==
    \/ PSMain
    \/ \E url \in {B1, B2} : PSInsertBroker(url)
    \/ \E o \in Flows : \E m \in {Md1, Md2} : PSOpenNew(o, m.brokers)
    \/ PSAddConnection
    \/ \E o \in Owners : PSReturn(o)

SpecPS == Init /\ [][NextPS]_vars

\* ============================================================ SpecDiscover
\* Discovery of a cluster of three brokers: the agent after start()
\* returned, its flows adapting the metadata responses of that cluster.
DiscoverItems == {Metadata(9, Header(3), Md3), Metadata(9, Header(2), Md2)}

NextDiscover ==
    \/ \E f \in Flows :
           \/ \E it \in DiscoverItems : Phase1(f, it)
           \/ Phase2(f)
           \/ Forward(f)
    \/ AddConnection

SpecDiscover == InitFlow /\ [][NextDiscover]_vars

\* ================================================================ SpecLock
\* KafkaProxy of kafka.rs with every acquisition and release of the RwLock
\* around `connections` a step of its own.  A task is suspended at its
\* awaits (the next frame, Client::new, the write to the sink); between two
\* awaits it runs, and any thread may run it.

\* RwLock::read() returns once no write guard is out.
CanRead == lock.writer = 0 - 1

\* RwLock::write() returns once no guard is out.
CanWrite == lock.writer = 0 - 1 /\ lock.readers = {}

\* open_new_broker_connection_if_needed, after local_to_remote received a
\* Metadata item: `let connections = self.connections.read().unwrap();`
LScanLock(f, it) ==
    /\ pc[f] = "idle"
    /\ Len(toClient[f]) < MaxAdapt
    /\ \E c \in DOMAIN clients : clients[c].listening
    /\ CanRead
    /\ lock' = [lock EXCEPT !.readers = @ \cup {f}]
    /\ item' = [item EXCEPT ![f] = it]
    /\ pc' = [pc EXCEPT ![f] = "scan"]
    /\ UNCHANGED <<connections, clients, adds, outm, toClient, flowVars, ctlVars, ret>>

\* Faulty variant: the guard of the scan lives to the end of the function,
\* across join_all(..).await.
ScanGuardKept(readers, f) == readers

\* The block of the scan ends and drops its read guard.
ScanGuardDropped(readers, f) == readers \ {f}

\* The scan, the end of its block, then join_all(..) polls its futures up
\* to their first await.
LScan(f) ==
    /\ pc[f] = "scan"
    /\ BeginAdapt(f, item[f])
    /\ lock' = [lock EXCEPT !.readers = ScanGuardDropped(@, f)]
    /\ UNCHANGED <<connections, clients, outm, toClient, flowVars, ctlVars, ret>>

\* add_connection after Client::new: self.connections.write().unwrap()
LWriteLock(o, i) ==
    /\ i \in DOMAIN adds[o]
    /\ adds[o][i].st = "connected"
    /\ CanWrite
    /\ lock' = [lock EXCEPT !.writer = o]
    /\ adds' = [adds EXCEPT ![o][i].st = "wlocked"]
    /\ UNCHANGED <<connections, clients, pc, item, outm, toClient, flowVars, ctlVars, ret>>

\* .insert(url, remote_port); the temporary write guard is dropped at the
\* end of the statement.
LInsert(o, i) ==
    /\ i \in DOMAIN adds[o]
    /\ adds[o][i].st = "wlocked"
    /\ connections' = Insert(connections, adds[o][i].url, adds[o][i].remote_port)
    /\ lock' = [lock EXCEPT !.writer = 0 - 1]
    /\ adds' = [adds EXCEPT ![o][i].st = "inserted"]
    /\ UNCHANGED <<clients, pc, item, outm, toClient, flowVars, ctlVars, ret>>

\* adapt_metadata after join_all: `let connections =
\* self.connections.read().unwrap();`
LRewriteLock(f) ==
    /\ Phase2Ready(f)
    /\ CanRead
    /\ lock' = [lock EXCEPT !.readers = @ \cup {f}]
    /\ pc' = [pc EXCEPT ![f] = "rewrite"]
    /\ UNCHANGED <<connections, clients, item, adds, outm, toClient, flowVars, ctlVars, ret>>

\* The rewrite loop; the guard is dropped when adapt_metadata returns, or
\* by the unwinding of a panic of unwrap().
LRewrite(f) ==
    /\ pc[f] = "rewrite"
    /\ IF Phase2Panics(connections, item[f].response.brokers)
       THEN /\ pc' = [pc EXCEPT ![f] = "panicked"]
            /\ outm' = outm
       ELSE /\ pc' = [pc EXCEPT ![f] = "encode"]
            /\ outm' = [outm EXCEPT ![f] =
                   [item[f].response EXCEPT
                       !.brokers = AdaptBrokers(connections, item[f].response.brokers)]]
    /\ lock' = [lock EXCEPT !.readers = @ \ {f}]
    /\ UNCHANGED <<connections, clients, item, adds, toClient, flowVars, ctlVars, ret>>

LockItems == {Metadata(9, Header(2), Md2)}

\* The awaits that resolve: Client::new, the next Metadata item, the sink.
Resumes ==
    \/ Start
    \/ \E o \in Owners : \E i \in 1..2 :
           \/ \E p \in RemotePorts : ClientNewOk(o, i, p)
           \/ ClientNewErr(o, i)
    \/ \E f \in Flows : \E it \in LockItems : LScanLock(f, it)
    \/ \E f \in Flows : Forward(f)

\* What a task does between two awaits.
Runs ==
    \/ StartReturn
    \/ \E f \in Flows : LScan(f) \/ LRewriteLock(f) \/ LRewrite(f)
    \/ \E o \in Owners : \E i \in 1..2 :
           LWriteLock(o, i) \/ LInsert(o, i) \/ AddConnectionSpawn(o, i)

NextLock == Resumes \/ Runs

SpecLock == Init /\ [][NextLock]_vars

\* ============================================================== SpecTunnel
\* The bootstrap tunnel of start(): Client::new, Client::listen and
\* handle_connection of client.rs, message by message, under add_connection
\* of kafka.rs.  The rendezvous and the network are the environment: every
\* recv may yield any ServerMessage, EOF or an error.

\* NETWORK_TIMEOUT, in seconds.
NetworkTimeout == 3

Uuids == {1, 2}

ServerMessages ==
    {Msg("Hello", MinPort), Msg("Challenge", 0), Msg("Heartbeat", 0), Msg("Error", 0)}
        \cup {Msg("Connection", id) : id \in Uuids}

\* What the recv_timeout calls of Client::new may yield.
Replies == ServerMessages \cup {Msg("Hello", MinPort + 1), EOF, IoErr, Elapsed}

\* Delimited::recv: Ok(Some(message)), Ok(None) or Err(_).
Recv(m) == m \in ServerMessages \cup {EOF, IoErr}

\* Delimited::recv_timeout: recv bounded by NETWORK_TIMEOUT.
RecvTimeout(m) ==
    /\ m \in Replies
    /\ m = Elapsed <=> elapsed = NetworkTimeout

\* Client::new returned Err(_); add_connection returns it through `?`.
ClientNewFails == adds' = [adds EXCEPT ![0][1].st = "err"]

\* connect_with_timeout(to, CONTROL_PORT).await?
CNDial(outcome) ==
    /\ pc[0] = "join"
    /\ adds[0][1].st = "new"
    /\ cn.st = "init"
    /\ cn' = [cn EXCEPT !.dial = outcome,
                        !.st = IF outcome # "ok" THEN "err"
                               ELSE IF auth THEN "auth" ELSE "hello"]
    /\ IF outcome = "ok" THEN adds' = adds ELSE ClientNewFails
    /\ elapsed' = 0
    /\ UNCHANGED <<connections, clients, pc, item, outm, toClient, flowVars,
                   auth, listen, tasks, ret, lock>>

\* auth.client_handshake(&mut stream).await?: expects Challenge(c) and
\* answers Authenticate(tag).
CNHandshake(m, sendOk) ==
    /\ cn.st = "auth"
    /\ RecvTimeout(m)
    /\ cn' = [cn EXCEPT !.rcvd = Append(@, m),
                        !.sent = IF m.tag = "Challenge"
                                 THEN Append(@, Msg("Authenticate", 0)) ELSE @,
                        !.st = IF m.tag = "Challenge" /\ sendOk THEN "hello" ELSE "err"]
    /\ IF m.tag = "Challenge" /\ sendOk THEN adds' = adds ELSE ClientNewFails
    /\ elapsed' = 0
    /\ UNCHANGED <<connections, clients, pc, item, outm, toClient, flowVars,
                   auth, listen, tasks, ret, lock>>

\* stream.send(ClientMessage::Hello(port)).await?
CNSendHello(sendOk) ==
    /\ cn.st = "hello"
    /\ cn' = [cn EXCEPT !.sent = Append(@, Msg("Hello", 0)),
                        !.st = IF sendOk THEN "reply" ELSE "err"]
    /\ IF sendOk THEN adds' = adds ELSE ClientNewFails
    /\ elapsed' = 0
    /\ UNCHANGED <<connections, clients, pc, item, outm, toClient, flowVars,
                   auth, listen, tasks, ret, lock>>

\* Faulty variant: any message the server sends counts as its hello.
HelloReplyAnyMessage(m) ==
    IF m.tag \in {"EOF", "IoErr", "Elapsed"} THEN "err" ELSE "ok"

\* match stream.recv_timeout().await? { Some(Hello(remote_port)) =>
\* remote_port, anything else => bail!(..) }
HelloReply(m) == IF m.tag = "Hello" THEN "ok" ELSE "err"

\* The reply to Hello: Ok(Client{remote_port, ..}) or Err(_).
CNReply(m) ==
    /\ cn.st = "reply"
    /\ RecvTimeout(m)
    /\ cn' = [cn EXCEPT !.rcvd = Append(@, m), !.st = HelloReply(m)]
    /\ IF HelloReply(m) = "ok"
       THEN /\ clients' = Append(clients,
                   [local_host |-> adds[0][1].url.host,
                    local_port |-> adds[0][1].url.port,
                    remote_port |-> m.arg, listening |-> FALSE])
            /\ adds' = [adds EXCEPT ![0][1].st = "connected",
                                    ![0][1].remote_port = m.arg,
                                    ![0][1].client = Len(clients) + 1]
       ELSE /\ clients' = clients
            /\ ClientNewFails
    /\ elapsed' = 0
    /\ UNCHANGED <<connections, pc, item, outm, toClient, flowVars,
                   auth, listen, tasks, ret, lock>>

\* Client::listen starts running: conn.take().unwrap(), Arc::new(self).
ListenEnter ==
    /\ Len(clients) >= 1
    /\ clients[1].listening
    /\ listen.st = "none"
    /\ listen' = [listen EXCEPT !.st = "live"]
    /\ elapsed' = 0
    /\ UNCHANGED <<connections, clients, pc, item, adds, outm, toClient, flowVars,
                   auth, cn, tasks, ret, lock>>

\* Faulty variant: a message that is unexpected in the live state ends the
\* loop with an error.
ListenNextStrict(m) ==
    IF m.tag = "EOF" THEN "ok"
    ELSE IF m.tag \in {"Heartbeat", "Connection"} THEN "live" ELSE "err"

\* match conn.recv().await? { .. }: None => return Ok(()), Err(_) returns
\* the error, every message goes round the loop.
ListenNext(m) ==
    IF m.tag = "EOF" THEN "ok"
    ELSE IF m.tag = "IoErr" THEN "err" ELSE "live"

\* The Connection(id) arm: tokio::spawn(.. this.handle_connection(id) ..).
Spawned(m) ==
    IF m.tag = "Connection" THEN <<[id |-> m.arg, st |-> "dial"]>> ELSE <<>>

\* One turn of the loop of Client::listen.
ListenRecv(m) ==
    /\ listen.st = "live"
    /\ listen.n < MaxMsgs
    /\ Recv(m)
    /\ listen' = [st |-> ListenNext(m), last |-> m, n |-> listen.n + 1,
                  conns |-> IF m.tag = "Connection"
                            THEN Append(listen.conns, m.arg) ELSE listen.conns]
    /\ tasks' = tasks \o Spawned(m)
    /\ elapsed' = 0
    /\ UNCHANGED <<connections, clients, pc, item, adds, outm, toClient, flowVars,
                   auth, cn, ret, lock>>

\* Faulty variant: kafka_proxy is started on the sockets as they are, the
\* buffered bytes are not written first.
HCNextProxyBeforeDrain(st) ==
    IF st = "dial" THEN (IF auth THEN "auth" ELSE "accept")
    ELSE IF st = "auth" THEN "accept"
    ELSE IF st = "accept" THEN "local"
    ELSE IF st = "local" THEN "proxy"
    ELSE "ok"

\* handle_connection, one await after the other: dial the rendezvous,
\* client_handshake if a secret is set, send Accept(id), dial the local
\* broker, write the buffered bytes, kafka_proxy.
HCNext(st) ==
    IF st = "dial" THEN (IF auth THEN "auth" ELSE "accept")
    ELSE IF st = "auth" THEN "accept"
    ELSE IF st = "accept" THEN "local"
    ELSE IF st = "local" THEN "drain"
    ELSE IF st = "drain" THEN "proxy"
    ELSE "ok"

FlowEnded(st) == st \in {"ok", "err", "panicked"}

\* Faulty variant: the loop awaits handle_connection itself and `?` returns
\* its error.
FlowExitPropagates(l, result) ==
    IF result \in {"err", "panicked"} THEN [l EXCEPT !.st = "err"] ELSE l

\* The spawned task only logs what handle_connection returned.
FlowExit(l, result) == l

\* One await of handle_connection resolves: Ok, Err(_) through `?`, or, in
\* kafka_proxy, a panic of adapt_metadata.
HandleConnection(t, outcome) ==
    /\ t \in DOMAIN tasks
    /\ ~FlowEnded(tasks[t].st)
    /\ outcome = "panicked" => tasks[t].st = "proxy"
    /\ LET st == IF outcome = "ok" THEN HCNext(tasks[t].st) ELSE outcome
       IN  /\ tasks' = [tasks EXCEPT ![t].st = st]
           /\ listen' = IF FlowEnded(st) THEN FlowExit(listen, st) ELSE listen
    /\ UNCHANGED <<connections, clients, pc, item, adds, outm, toClient, flowVars,
                   auth, cn, elapsed, ret, lock>>

\* A second passes while a recv on the control channel is pending.  The
\* recv_timeout of Client::new resolves at NETWORK_TIMEOUT; the recv of
\* Client::listen has no deadline.
Tick ==
    /\ \/ cn.st \in {"auth", "reply"} /\ elapsed < NetworkTimeout
       \/ listen.st = "live" /\ elapsed <= NetworkTimeout
    /\ elapsed' = elapsed + 1
    /\ UNCHANGED <<connections, clients, pc, item, adds, outm, toClient, flowVars,
                   auth, cn, listen, tasks, ret, lock>>

\* KafkaProxy::new(to, secret), with or without a secret.
InitTunnel ==
    /\ connections = EmptyMap
    /\ clients = <<>>
    /\ pc = [o \in Owners |-> IF o = 0 THEN "start" ELSE "idle"]
    /\ item = [f \in Flows |-> NoItem]
    /\ adds = [o \in Owners |-> <<>>]
    /\ outm = [f \in Flows |-> NoItem.response]
    /\ toClient = [f \in Flows |-> <<>>]
    /\ remoteIn = [f \in Flows |-> <<>>]
    /\ localIn = [f \in Flows |-> <<>>]
    /\ r2l = [f \in Flows |-> <<>>]
    /\ toBroker = [f \in Flows |-> <<>>]
    /\ inflight = [f \in Flows |-> EmptyMap]
    /\ l2r = [f \in Flows |-> <<>>]
    /\ sent = [f \in Flows |-> [req |-> <<>>, resp |-> <<>>]]
    /\ hist = [f \in Flows |-> <<>>]
    /\ auth \in BOOLEAN
    /\ CtlInit
    /\ lock = Unlocked
    /\ ret = NoResult

ClientNew ==
    \/ \E outcome \in {"ok", "refused", "timeout"} : CNDial(outcome)
    \/ \E m \in Replies : \E sendOk \in BOOLEAN : CNHandshake(m, sendOk)
    \/ \E sendOk \in BOOLEAN : CNSendHello(sendOk)
    \/ \E m \in Replies : CNReply(m)

Listen ==
    \/ ListenEnter
    \/ \E m \in ServerMessages \cup {EOF, IoErr} : ListenRecv(m)

\* start() up to the listen loop of the bootstrap tunnel.
StartTunnel ==
    \/ Start
    \/ ClientNew
    \/ AddConnectionInsert(0, 1)
    \/ AddConnectionSpawn(0, 1)
    \/ StartReturn
    \/ Listen

\* The tunnel and the flows it spawns; no recv waits as long as its deadline.
NextTunnel ==
    \/ StartTunnel
    \/ \E t \in 1..MaxMsgs : \E outcome \in {"ok", "err", "panicked"} :
           HandleConnection(t, outcome)

SpecTunnel == InitTunnel /\ [][NextTunnel]_vars

\* ============================================================== SpecTimed
\* The control channel of the tunnel against the clock.
NextTimed ==
    \/ StartTunnel
    \/ Tick

SpecTimed == InitTunnel /\ [][NextTimed]_vars

\* =============================================================== SpecSetup
\* handle_connection of client.rs, await by await, for the data flows the
\* listen loop of the bootstrap tunnel spawned.  tasks[t] is the task of flow
\* t: the messages it sent on its data connection, the bytes its framed
\* reader buffered, the address it dialed; remoteIn[t] are the bytes waiting
\* on the data socket, toBroker[t] the writes to the local socket.

\* The task of handle_connection(id) run for tunnel client c.
NewTask(id, c) ==
    [id |-> id, client |-> c, st |-> "dial", sent |-> <<>>,
     read_buf |-> <<>>, target |-> KafkaBroker(0, 0), steps |-> <<>>]

\* One await of handle_connection resolved with Ok: the task moves on.
Advance(t, step) ==
    [tasks[t] EXCEPT !.st = HCNext(tasks[t].st), !.steps = Append(@, step)]

\* `?` returns the error; the spawned task logs it and ends.
Bail(t) == [tasks[t] EXCEPT !.st = "err"]

\* The rendezvous forwards bytes of the Kafka client on the data socket.
RendezvousSends(t, frame) ==
    /\ t \in DOMAIN tasks
    /\ tasks[t].st \in {"auth", "accept", "local", "drain", "proxy"}
    /\ FramesSent < MaxFrames
    /\ remoteIn' = [remoteIn EXCEPT ![t] = @ \o frame]
    /\ sent' = [sent EXCEPT ![t].req = Append(@, frame)]
    /\ UNCHANGED <<connections, clients, pc, item, adds, outm, toClient,
                   localIn, r2l, toBroker, inflight, l2r, hist, ctlVars, ret, lock>>

\* connect_with_timeout(&self.to[..], CONTROL_PORT).await?
HCDial(t, outcome) ==
    /\ t \in DOMAIN tasks
    /\ tasks[t].st = "dial"
    /\ tasks' = [tasks EXCEPT ![t] = IF outcome = "ok" THEN Advance(t, "dial") ELSE Bail(t)]
    /\ UNCHANGED <<connections, clients, pc, item, adds, outm, toClient, flowVars,
                   auth, cn, listen, elapsed, ret, lock>>

\* auth.client_handshake(&mut remote_conn).await?: expects Challenge(c) and
\* answers Authenticate(tag).  The read of the framed reader may buffer the
\* bytes that already wait on the socket behind the message.
HCHandshake(t, m, sendOk, over) ==
    /\ t \in DOMAIN tasks
    /\ tasks[t].st = "auth"
    /\ m \in Replies \ {Elapsed}
    /\ LET ok == m.tag = "Challenge" /\ sendOk
           buf == IF over THEN remoteIn[t] ELSE <<>>
       IN  /\ tasks' = [tasks EXCEPT ![t] =
                  [(IF ok THEN Advance(t, "auth") ELSE Bail(t)) EXCEPT
                      !.sent = IF m.tag = "Challenge"
                               THEN Append(@, Msg("Authenticate", 0)) ELSE @,
                      !.read_buf = buf]]
           /\ remoteIn' = [remoteIn EXCEPT ![t] = SubSeq(@, Len(buf) + 1, Len(@))]
    /\ UNCHANGED <<connections, clients, pc, item, adds, outm, toClient,
                   localIn, r2l, toBroker, inflight, l2r, sent, hist,
                   auth, cn, listen, elapsed, ret, lock>>

\* Faulty variant: the answer to the challenge is sent again with Accept.
AcceptAfterAuthenticate(id) == <<Msg("Authenticate", 0), Msg("Accept", id)>>

\* ClientMessage::Accept(id), the one message sent after the handshake.
Accept(id) == <<Msg("Accept", id)>>

\* remote_conn.send(ClientMessage::Accept(id)).await?
HCAccept(t, sendOk) ==
    /\ t \in DOMAIN tasks
    /\ tasks[t].st = "accept"
    /\ tasks' = [tasks EXCEPT ![t] =
           [(IF sendOk THEN Advance(t, "accept") ELSE Bail(t)) EXCEPT
               !.sent = @ \o Accept(tasks[t].id)]]
    /\ UNCHANGED <<connections, clients, pc, item, adds, outm, toClient, flowVars,
                   auth, cn, listen, elapsed, ret, lock>>

\* connect_with_timeout(&self.local_host, self.local_port).await?
HCLocal(t, outcome) ==
    /\ t \in DOMAIN tasks
    /\ tasks[t].st = "local"
    /\ tasks' = [tasks EXCEPT ![t] =
           [(IF outcome = "ok" THEN Advance(t, "local") ELSE Bail(t)) EXCEPT
               !.target = KafkaBroker(clients[tasks[t].client].local_host,
                                      clients[tasks[t].client].local_port)]]
    /\ UNCHANGED <<connections, clients, pc, item, adds, outm, toClient, flowVars,
                   auth, cn, listen, elapsed, ret, lock>>

\* remote_conn.into_parts(); local_conn.write_all(&parts.read_buf).await?
HCDrain(t, writeOk) ==
    /\ t \in DOMAIN tasks
    /\ tasks[t].st = "drain"
    /\ tasks' = [tasks EXCEPT ![t] = IF writeOk THEN Advance(t, "drain") ELSE Bail(t)]
    /\ toBroker' = [toBroker EXCEPT ![t] =
           IF writeOk /\ tasks[t].read_buf # <<>> THEN Append(@, tasks[t].read_buf) ELSE @]
    /\ UNCHANGED <<connections, clients, pc, item, adds, outm, toClient,
                   remoteIn, localIn, r2l, inflight, l2r, sent, hist,
                   auth, cn, listen, elapsed, ret, lock>>

\* kafka_proxy(local_conn, parts.io, ..) is called: its halves start to read.
HCProxy(t) ==
    /\ t \in DOMAIN tasks
    /\ tasks[t].st = "proxy"
    /\ pc[t] = "none"
    /\ pc' = [pc EXCEPT ![t] = "idle"]
    /\ tasks' = [tasks EXCEPT ![t].steps = Append(@, "proxy")]
    /\ UNCHANGED <<connections, clients, item, adds, outm, toClient, flowVars,
                   auth, cn, listen, elapsed, ret, lock>>

\* kafka_proxy(..).await? returned: a socket closed or failed.
HCReturn(t, outcome) ==
    /\ t \in DOMAIN tasks
    /\ tasks[t].st = "proxy"
    /\ pc[t] = "idle"
    /\ r2l[t] = <<>>
    /\ pc' = [pc EXCEPT ![t] = "closed"]
    /\ tasks' = [tasks EXCEPT ![t].st = outcome]
    /\ UNCHANGED <<connections, clients, item, adds, outm, toClient, flowVars,
                   auth, cn, listen, elapsed, ret, lock>>

\* start() returned, the listen loop of the bootstrap tunnel received
\* Connection(1) and spawned the task of flow 1.
InitSetup ==
    /\ connections = (Bootstrap :> MinPort)
    /\ clients = <<[local_host |-> Bootstrap.host, local_port |-> Bootstrap.port,
                    remote_port |-> MinPort, listening |-> TRUE]>>
    /\ pc = [o \in Owners |-> IF o = 0 THEN "returned" ELSE "none"]
    /\ item = [f \in Flows |-> NoItem]
    /\ adds = [o \in Owners |->
                 IF o = 0 THEN <<[url |-> Bootstrap, st |-> "done",
                                  remote_port |-> MinPort, client |-> 1]>>
                 ELSE <<>>]
    /\ outm = [f \in Flows |-> NoItem.response]
    /\ toClient = [f \in Flows |-> <<>>]
    /\ remoteIn = [f \in Flows |-> <<>>]
    /\ localIn = [f \in Flows |-> <<>>]
    /\ r2l = [f \in Flows |-> <<>>]
    /\ toBroker = [f \in Flows |-> <<>>]
    /\ inflight = [f \in Flows |-> EmptyMap]
    /\ l2r = [f \in Flows |-> <<>>]
    /\ sent = [f \in Flows |-> [req |-> <<>>, resp |-> <<>>]]
    /\ hist = [f \in Flows |-> <<>>]
    /\ auth \in BOOLEAN
    /\ cn = [st |-> "ok", dial |-> "ok",
             sent |-> (IF auth THEN <<Msg("Authenticate", 0)>> ELSE <<>>)
                          \o <<Msg("Hello", 0)>>,
             rcvd |-> (IF auth THEN <<Msg("Challenge", 0)>> ELSE <<>>)
                          \o <<Msg("Hello", MinPort)>>]
    /\ listen = [st |-> "live", last |-> Msg("Connection", 1), n |-> 1,
                 conns |-> <<1>>]
    /\ tasks = <<NewTask(1, 1)>>
    /\ elapsed = 0
    /\ lock = Unlocked
    /\ ret = StartResult(To, MinPort)

NextSetup ==
    \E t \in Flows :
        \/ \E frame \in Requests : RendezvousSends(t, frame)
        \/ \E outcome \in {"ok", "refused", "timeout"} : HCDial(t, outcome)
        \/ \E m \in Replies : \E sendOk, over \in BOOLEAN : HCHandshake(t, m, sendOk, over)
        \/ \E sendOk \in BOOLEAN : HCAccept(t, sendOk)
        \/ \E outcome \in {"ok", "refused", "timeout"} : HCLocal(t, outcome)
        \/ \E writeOk \in BOOLEAN : HCDrain(t, writeOk)
        \/ HCProxy(t)
        \/ R2LRead(t)
        \/ R2LWrite(t)
        \/ \E outcome \in {"ok", "err"} : HCReturn(t, outcome)

SpecSetup == InitSetup /\ [][NextSetup]_vars

\* ============================================================== SpecSelect
\* kafka_proxy as the select! over its two halves: the peers close or fail
\* their sockets, a half completes with Ok at a clean end of its stream and
\* with Err at an error, and the first half to complete ends the flow.
\* sent[f].reqEnd / sent[f].respEnd tell how the Kafka client / the broker
\* ended its stream ("open" while it has not).

\* The Kafka client (through the rendezvous) closes or resets the remote
\* socket.
ClientCloses(f, how) ==
    /\ Live(f)
    /\ sent[f].reqEnd = "open"
    /\ sent' = [sent EXCEPT ![f].reqEnd = how]
    /\ UNCHANGED <<connections, clients, pc, item, adds, outm, toClient,
                   remoteIn, localIn, r2l, toBroker, inflight, l2r, hist,
                   ctlVars, ret, lock>>

\* The broker closes or resets the local socket.
BrokerCloses(f, how) ==
    /\ Live(f)
    /\ sent[f].respEnd = "open"
    /\ sent' = [sent EXCEPT ![f].respEnd = how]
    /\ UNCHANGED <<connections, clients, pc, item, adds, outm, toClient,
                   remoteIn, localIn, r2l, toBroker, inflight, l2r, hist,
                   ctlVars, ret, lock>>

\* A half of kafka_proxy completed: which one and with what.
EndEvent(half, result) == [kind |-> "end", half |-> half, result |-> result]

\* Faulty variant: the flow reports Ok whatever the half returned.
FlowResultAlwaysOk(result) == "ok"

\* select! { res = remote_to_local(..) => res, res = local_to_remote(..) => res }
FlowResult(result) == IF result = "eof" THEN "ok" ELSE "failed"

\* select! returns the result of the half that completed and drops the
\* other one: the frame it holds and the futures it awaits go with it.
Select(f, half, result) ==
    /\ pc' = [pc EXCEPT ![f] = FlowResult(result)]
    /\ hist' = [hist EXCEPT ![f] = Append(@, EndEvent(half, result))]
    /\ r2l' = [r2l EXCEPT ![f] = <<>>]
    /\ l2r' = [l2r EXCEPT ![f] = <<>>]
    /\ adds' = [adds EXCEPT ![f] = <<>>]
    /\ UNCHANGED <<connections, clients, item, outm, toClient,
                   remoteIn, localIn, toBroker, inflight, sent, ctlVars, ret, lock>>

\* remote_to_local: source.try_next().await? yields None (the loop ends,
\* Ok(())) or an error.
R2LEnd(f) ==
    /\ Live(f)
    /\ r2l[f] = <<>>
    /\ ~FrameReady(remoteIn[f])
    /\ sent[f].reqEnd # "open"
    /\ Select(f, "remote_to_local", sent[f].reqEnd)

\* remote_to_local: local_write.write_all_buf(&mut bytes).await? fails on a
\* local socket that is gone.
R2LWriteFails(f) ==
    /\ Live(f)
    /\ r2l[f] # <<>>
    /\ sent[f].respEnd # "open"
    /\ Select(f, "remote_to_local", "err")

\* local_to_remote: the source ends, forward(sink) completes with Ok(()),
\* or the source yields an io error and forward returns it.
L2REnd(f) ==
    /\ pc[f] = "idle"
    /\ ~FrameReady(localIn[f])
    /\ sent[f].respEnd # "open"
    /\ Select(f, "local_to_remote", sent[f].respEnd)

\* local_to_remote: the write of forward(sink) fails on a remote socket that
\* is gone.
L2RWriteFails(f) ==
    /\ pc[f] \in {"encode", "raw"}
    /\ sent[f].reqEnd # "open"
    /\ Select(f, "local_to_remote", "err")

\* The agent after start() returned: flow 1 with both sockets open; the
\* Kafka client of flow 2 closed its connection before it sent a request.
InitSelect ==
    /\ connections = (Bootstrap :> MinPort)
    /\ clients = <<[local_host |-> Bootstrap.host, local_port |-> Bootstrap.port,
                    remote_port |-> MinPort, listening |-> TRUE]>>
    /\ pc = [o \in Owners |-> IF o = 0 THEN "returned"
                               ELSE IF o = 1 THEN "idle" ELSE "ok"]
    /\ item = [f \in Flows |-> NoItem]
    /\ adds = [o \in Owners |->
                 IF o = 0 THEN <<[url |-> Bootstrap, st |-> "done",
                                  remote_port |-> MinPort, client |-> 1]>>
                 ELSE <<>>]
    /\ outm = [f \in Flows |-> NoItem.response]
    /\ toClient = [f \in Flows |-> <<>>]
    /\ remoteIn = [f \in Flows |-> <<>>]
    /\ localIn = [f \in Flows |-> <<>>]
    /\ r2l = [f \in Flows |-> <<>>]
    /\ toBroker = [f \in Flows |-> <<>>]
    /\ inflight = [f \in Flows |-> EmptyMap]
    /\ l2r = [f \in Flows |-> <<>>]
    /\ sent = [f \in Flows |-> [req |-> <<>>, resp |-> <<>>,
                                 reqEnd |-> IF f = 1 THEN "open" ELSE "eof",
                                 respEnd |-> "open"]]
    /\ hist = [f \in Flows |->
                 IF f = 1 THEN <<>> ELSE <<EndEvent("remote_to_local", "eof")>>]
    /\ auth = FALSE
    /\ CtlInit
    /\ lock = Unlocked
    /\ ret = StartResult(To, MinPort)

\* What the peers of the flow send: a Metadata request and the response to
\* it (which the broker may send with no request registered, too).
SelectRequests == {Req(MetadataKey, 1, 1)}
SelectResponses == {MdResp}

Peers ==
    \E f \in Flows :
        \/ sent[f].reqEnd = "open" /\ \E frame \in SelectRequests : ClientSends(f, frame)
        \/ sent[f].respEnd = "open" /\ \E frame \in SelectResponses : BrokerSends(f, frame)
        \/ \E how \in {"eof", "err"} : ClientCloses(f, how)
        \/ \E how \in {"eof", "err"} : BrokerCloses(f, how)

Halves ==
    \E f \in Flows :
        \/ R2LRead(f)
        \/ R2LWrite(f)
        \/ R2LEnd(f)
        \/ R2LWriteFails(f)
        \/ L2RDecode(f)
        \/ ForwardRaw(f)
        \/ Phase2(f)
        \/ Forward(f)
        \/ L2REnd(f)
        \/ L2RWriteFails(f)

NextSelect ==
    \/ Peers
    \/ Halves
    \/ AddConnection

SpecSelect == InitSelect /\ [][NextSelect]_vars

\* The runtime polls a half that can make progress, and every Client::new
\* resolves (its dial and its recv are bounded by NETWORK_TIMEOUT).
SpecSelectFair == SpecSelect /\ WF_vars(Halves) /\ WF_vars(AddConnection)

\* ============================================================= SpecClients
\* Two tunnel clients, one for each broker of the cluster, each with its
\* listen loop in a task of its own (add_connection spawns it) and with the
\* data flows its loop spawned.  listen[c] is the loop of clients[c].

\* Faulty variant: the flows a loop spawned are aborted when the loop ends.
TasksAbortedAtExit(ts, c, next) ==
    [t \in DOMAIN ts |->
        IF next # "live" /\ ts[t].client = c /\ ~FlowEnded(ts[t].st)
        THEN [ts[t] EXCEPT !.st = "err"] ELSE ts[t]]

\* tokio::spawn detaches the task of a flow: the end of the loop that
\* spawned it leaves it running.
TasksAtExit(ts, c, next) == ts

\* Messages the loops have received so far, all tunnel clients together.
Received ==
    LET n[k \in 0..Len(clients)] == IF k = 0 THEN 0 ELSE listen[k].n + n[k - 1]
    IN  n[Len(clients)]

\* One turn of the loop of Client::listen of tunnel client c.
ListenRecvOf(c, m) ==
    /\ c \in DOMAIN listen
    /\ listen[c].st = "live"
    /\ Received < MaxMsgs
    /\ Recv(m)
    /\ m.tag = "Connection" => Len(tasks) < Cardinality(Flows)
    /\ listen' = [listen EXCEPT ![c] =
           [st |-> ListenNext(m), last |-> m, n |-> listen[c].n + 1,
            conns |-> IF m.tag = "Connection"
                      THEN Append(listen[c].conns, m.arg) ELSE listen[c].conns]]
    /\ tasks' = TasksAtExit(tasks, c, ListenNext(m))
                    \o (IF m.tag = "Connection" THEN <<NewTask(m.arg, c)>> ELSE <<>>)
    /\ UNCHANGED <<connections, clients, pc, item, adds, outm, toClient, flowVars,
                   auth, cn, elapsed, ret, lock>>

\* The agent after the cluster of b1 and b2 is discovered: a tunnel client
\* for each, both listening.
InitClients ==
    /\ connections = (B1 :> MinPort) @@ (B2 :> MinPort + 1)
    /\ clients = <<[local_host |-> B1.host, local_port |-> B1.port,
                    remote_port |-> MinPort, listening |-> TRUE],
                   [local_host |-> B2.host, local_port |-> B2.port,
                    remote_port |-> MinPort + 1, listening |-> TRUE]>>
    /\ pc = [o \in Owners |-> IF o = 0 THEN "returned" ELSE "none"]
    /\ item = [f \in Flows |-> NoItem]
    /\ adds = [o \in Owners |->
                 IF o = 0 THEN <<[url |-> Bootstrap, st |-> "done",
                                  remote_port |-> MinPort, client |-> 1]>>
                 ELSE <<>>]
    /\ outm = [f \in Flows |-> NoItem.response]
    /\ toClient = [f \in Flows |-> <<>>]
    /\ remoteIn = [f \in Flows |-> <<>>]
    /\ localIn = [f \in Flows |-> <<>>]
    /\ r2l = [f \in Flows |-> <<>>]
    /\ toBroker = [f \in Flows |-> <<>>]
    /\ inflight = [f \in Flows |-> EmptyMap]
    /\ l2r = [f \in Flows |-> <<>>]
    /\ sent = [f \in Flows |-> [req |-> <<>>, resp |-> <<>>]]
    /\ hist = [f \in Flows |-> <<>>]
    /\ auth \in BOOLEAN
    /\ cn = [st |-> "ok", dial |-> "ok",
             sent |-> (IF auth THEN <<Msg("Authenticate", 0)>> ELSE <<>>)
                          \o <<Msg("Hello", 0)>>,
             rcvd |-> (IF auth THEN <<Msg("Challenge", 0)>> ELSE <<>>)
                          \o <<Msg("Hello", MinPort)>>]
    /\ listen = [c \in 1..2 |->
                    [st |-> "live", last |-> Msg("None", 0), n |-> 0, conns |-> <<>>]]
    /\ tasks = <<>>
    /\ elapsed = 0
    /\ lock = Unlocked
    /\ ret = StartResult(To, MinPort)

\* handle_connection of flow t, one await at a time.
TaskStep(t) ==
    \/ \E outcome \in {"ok", "refused", "timeout"} : HCDial(t, outcome)
    \/ \E m \in Replies : \E sendOk \in BOOLEAN : HCHandshake(t, m, sendOk, FALSE)
    \/ \E sendOk \in BOOLEAN : HCAccept(t, sendOk)
    \/ \E outcome \in {"ok", "refused", "timeout"} : HCLocal(t, outcome)
    \/ \E writeOk \in BOOLEAN : HCDrain(t, writeOk)
    \/ HCProxy(t)
    \/ \E outcome \in {"ok", "err"} : HCReturn(t, outcome)

\* What the control channels yield: liveness, inbound connections, the end.
ClientsMessages ==
    {Msg("Heartbeat", 0), EOF, IoErr} \cup {Msg("Connection", id) : id \in Uuids}

NextClients ==
    \/ \E c \in 1..2 : \E m \in ClientsMessages : ListenRecvOf(c, m)
    \/ \E t \in Flows : TaskStep(t)

SpecClients == InitClients /\ [][NextClients]_vars

\* =============================================================== SpecCodec
\* One flow and its codec against a Kafka client that sends Metadata
\* requests of several versions (one of them newer than the protocol
\* library knows) and a broker that answers the requests it received, each
\* possibly more than once.
NewerVersion == 13

CodecRequests ==
    {Req(MetadataKey, 1, 1), Req(MetadataKey, 9, 4),
     Req(MetadataKey, NewerVersion, 3), Req(0, 1, 2)}

\* The response of the broker to a request frame: a MetadataResponse at the
\* version of the request, with the correlation id of the request.
Answer(req) ==
    IF req[2] # MetadataKey THEN <<2, req[4], 0>>
    ELSE IF req[3] = 1 THEN MdResp
    ELSE IF req[3] = 9 THEN EncodeMetadata(Metadata(9, Header(req[4]), Md1))
    ELSE <<4, req[4], 0, 1, 0>>

\* The broker answers a request that was written to its socket.
BrokerAnswers(f) ==
    \E i \in DOMAIN toBroker[f] : BrokerSends(f, Answer(toBroker[f][i]))

\* The agent after start() returned, with flow 1 open and flow 2 over.
InitCodec ==
    /\ connections = (Bootstrap :> MinPort)
    /\ clients = <<[local_host |-> Bootstrap.host, local_port |-> Bootstrap.port,
                    remote_port |-> MinPort, listening |-> TRUE]>>
    /\ pc = [o \in Owners |-> IF o = 0 THEN "returned"
                               ELSE IF o = 1 THEN "idle" ELSE "ok"]
    /\ item = [f \in Flows |-> NoItem]
    /\ adds = [o \in Owners |->
                 IF o = 0 THEN <<[url |-> Bootstrap, st |-> "done",
                                  remote_port |-> MinPort, client |-> 1]>>
                 ELSE <<>>]
    /\ outm = [f \in Flows |-> NoItem.response]
    /\ toClient = [f \in Flows |-> <<>>]
    /\ remoteIn = [f \in Flows |-> <<>>]
    /\ localIn = [f \in Flows |-> <<>>]
    /\ r2l = [f \in Flows |-> <<>>]
    /\ toBroker = [f \in Flows |-> <<>>]
    /\ inflight = [f \in Flows |-> EmptyMap]
    /\ l2r = [f \in Flows |-> <<>>]
    /\ sent = [f \in Flows |-> [req |-> <<>>, resp |-> <<>>]]
    /\ hist = [f \in Flows |-> <<>>]
    /\ auth = FALSE
    /\ CtlInit
    /\ lock = Unlocked
    /\ ret = StartResult(To, MinPort)

NextCodec ==
    \/ \E f \in Flows :
           \/ \E frame \in CodecRequests : ClientSends(f, frame)
           \/ BrokerAnswers(f)
           \/ R2LRead(f)
           \/ R2LWrite(f)
           \/ L2RDecode(f)
           \/ ForwardRaw(f)
           \/ Phase2(f)
           \/ Forward(f)
    \/ AddConnection

SpecCodec == InitCodec /\ [][NextCodec]_vars

\* ================================================================ SpecAuth
\* The connections of the bootstrap tunnel to the rendezvous, with or
\* without a secret: the control connection of Client::new, then one data
\* connection for each Connection(id) the listen loop receives.

\* The Connection(id) arm of the loop of Client::listen.
ListenConnection(id) ==
    /\ listen.st = "live"
    /\ Len(tasks) < Cardinality(Flows)
    /\ listen' = [st |-> "live", last |-> Msg("Connection", id), n |-> listen.n + 1,
                  conns |-> Append(listen.conns, id)]
    /\ tasks' = Append(tasks, NewTask(id, 1))
    /\ UNCHANGED <<connections, clients, pc, item, adds, outm, toClient, flowVars,
                   auth, cn, elapsed, ret, lock>>

\* KafkaProxy::new(to, secret); no flow has its proxy yet.
InitAuth ==
    /\ connections = EmptyMap
    /\ clients = <<>>
    /\ pc = [o \in Owners |-> IF o = 0 THEN "start" ELSE "none"]
    /\ item = [f \in Flows |-> NoItem]
    /\ adds = [o \in Owners |-> <<>>]
    /\ outm = [f \in Flows |-> NoItem.response]
    /\ toClient = [f \in Flows |-> <<>>]
    /\ remoteIn = [f \in Flows |-> <<>>]
    /\ localIn = [f \in Flows |-> <<>>]
    /\ r2l = [f \in Flows |-> <<>>]
    /\ toBroker = [f \in Flows |-> <<>>]
    /\ inflight = [f \in Flows |-> EmptyMap]
    /\ l2r = [f \in Flows |-> <<>>]
    /\ sent = [f \in Flows |-> [req |-> <<>>, resp |-> <<>>]]
    /\ hist = [f \in Flows |-> <<>>]
    /\ auth \in BOOLEAN
    /\ CtlInit
    /\ lock = Unlocked
    /\ ret = NoResult

NextAuth ==
    \/ Start
    \/ ClientNew
    \/ AddConnectionInsert(0, 1)
    \/ AddConnectionSpawn(0, 1)
    \/ StartReturn
    \/ ListenEnter
    \/ \E id \in Uuids : ListenConnection(id)
    \/ \E t \in Flows : TaskStep(t)

SpecAuth == InitAuth /\ [][NextAuth]_vars

\* ================================================================ claims

Url(c) == KafkaBroker(c.local_host, c.local_port)

Forwarded(f) == pc[f] = "idle" /\ Len(toClient[f]) > 0

\* C1: for every broker b at most one tunnel client is ever created, under
\* any interleaving of add_connection(b) calls of concurrent flows.
C1_OneTunnelClientPerBroker ==
    \A i, j \in DOMAIN clients : Url(clients[i]) = Url(clients[j]) => i = j

\* C2: once the pool maps b to p it maps b to p in every later state:
\* entries are never removed and a recorded port is never overwritten.
C2_EntriesNeverChange ==
    [][\A b \in DOMAIN connections :
          b \in DOMAIN connections' /\ connections'[b] = connections[b]]_vars

\* C3: no entry of the pool has remote port 0, whatever public operations
\* of the pool were called.
C3_NoPortZero ==
    \A b \in DOMAIN connections : connections[b] # 0

\* C4: on each flow a response frame takes the Metadata arm of the decoder
\* exactly when a Metadata request read earlier on the same flow registered
\* its correlation id and no response read since has consumed it; requests
\* of another flow never count.
Registered(h, k) ==
    \E j \in 1..(k - 1) :
        /\ h[j].kind = "req"
        /\ h[j].api_key = MetadataKey
        /\ h[j].correlation_id = h[k].correlation_id
        /\ \A m \in (j + 1)..(k - 1) :
               ~(h[m].kind = "resp" /\ h[m].correlation_id = h[k].correlation_id)

C4_CorrelationMatching ==
    \A f \in Flows : \A k \in DOMAIN hist[f] :
        hist[f][k].kind = "resp" => (hist[f][k].decoded <=> Registered(hist[f], k))

RespRead(f) == SelectSeq(hist[f], LAMBDA e : e.kind = "resp")

C4_Witness ==
    \E f, g \in Flows :
        /\ f # g
        /\ \E j, k \in DOMAIN RespRead(f) :
               /\ j < k
               /\ RespRead(f)[j].decoded
               /\ ~RespRead(f)[k].decoded
               /\ RespRead(f)[k].correlation_id = RespRead(f)[j].correlation_id
        /\ \E k \in DOMAIN RespRead(g) :
               /\ ~RespRead(g)[k].decoded
               /\ RespRead(g)[k].correlation_id = 1
        /\ hist[g] = RespRead(g)

\* C5: a response frame whose correlation id is not in the inflight table
\* when it is read is written to the remote socket byte for byte, length
\* prefix included; every request frame, Metadata requests included, is
\* written to the broker byte for byte.
C5_PassthroughFidelity ==
    \A f \in Flows :
        /\ Flatten(toBroker[f]) \o r2l[f] \o remoteIn[f] = Flatten(sent[f].req)
        /\ Flatten([k \in DOMAIN RespRead(f) |-> RespRead(f)[k].frame]) \o localIn[f]
               = Flatten(sent[f].resp)
        /\ Len(toClient[f]) <= Len(RespRead(f))
        /\ \A k \in DOMAIN toClient[f] :
               ~RespRead(f)[k].decoded => toClient[f][k] = sent[f].resp[k]

C5_Witness ==
    \E f \in Flows :
        /\ Req(MetadataKey, 1, 1) \in Range(toBroker[f])
        /\ Req(0, 1, 2) \in Range(toBroker[f])
        /\ 1 \in DOMAIN inflight[f]
        /\ <<2, 2, 0>> \in Range(toClient[f])

\* C6: when Phase 1 of adapt_metadata has completed and Phase 2 starts, every
\* original (host, port) of the response is a key of the pool.
C6_Phase2FindsEveryBroker ==
    \A f \in Flows : Phase2Ready(f) =>
        \A i \in DOMAIN item[f].response.brokers :
            KafkaBroker(item[f].response.brokers[i].host,
                        item[f].response.brokers[i].port) \in DOMAIN connections

\* C7: if an add_connection of Phase 1 fails, the flow is failed and no
\* metadata frame for that response is forwarded to the Kafka client.
C7_DialFailureFailsFlow ==
    \A f \in Flows :
        (\E i \in DOMAIN adds[f] : adds[f][i].st = "err") =>
            pc[f] \in {"join", "panicked"}

\* C8: every broker of a forwarded metadata response carries the rendezvous
\* host and the port the pool records for the broker's original (host, port),
\* the key being the address as the broker sent it.
C8_RewrittenHostAndPort ==
    [][\A f \in Flows :
          /\ (pc[f] = "join" /\ pc'[f] = "encode") =>
                \A i \in DOMAIN item[f].response.brokers :
                    /\ outm'[f].brokers[i].host = To
                    /\ outm'[f].brokers[i].port =
                           connections[KafkaBroker(item[f].response.brokers[i].host,
                                                   item[f].response.brokers[i].port)]
          /\ (pc[f] = "encode" /\ pc'[f] = "idle") =>
                DecodeMetadata(toClient'[f][Len(toClient'[f])],
                               item[f].version).response.brokers = outm[f].brokers
      ]_vars

C8_Witness ==
    \E f \in Flows :
        /\ Forwarded(f)
        /\ Len(outm[f].brokers) = 2
        /\ outm[f].brokers[1].port # outm[f].brokers[2].port

\* C9: adapt_metadata changes only host and port of each broker: broker ids,
\* their order, rack, controller id, cluster id and topics are as received,
\* and the forwarded frame carries the response header as received.
C9_OnlyHostAndPortChange ==
    \A f \in Flows :
        /\ (pc[f] = "encode" \/ Forwarded(f)) =>
              /\ Len(outm[f].brokers) = Len(item[f].response.brokers)
              /\ \A i \in DOMAIN outm[f].brokers :
                     /\ outm[f].brokers[i].node_id = item[f].response.brokers[i].node_id
                     /\ outm[f].brokers[i].rack = item[f].response.brokers[i].rack
              /\ outm[f].controller_id = item[f].response.controller_id
              /\ outm[f].cluster_id = item[f].response.cluster_id
              /\ outm[f].topics = item[f].response.topics
        /\ Forwarded(f) =>
              DecodeMetadata(toClient[f][Len(toClient[f])], item[f].version).header
                  = item[f].header

C9_Witness ==
    \E f \in Flows :
        /\ Forwarded(f)
        /\ Len(item[f].response.brokers) = 2
        /\ outm[f].brokers[2].host # item[f].response.brokers[2].host

\* C10: adapting a response that is already adapted (every broker points at
\* the rendezvous host and a remote port of the pool) opens no tunnel, leaves
\* the pool unchanged and returns the same response.
AlreadyAdapted(m) ==
    /\ m.brokers # <<>>
    /\ \A i \in DOMAIN m.brokers :
           /\ m.brokers[i].host = To
           /\ m.brokers[i].port \in Range(connections)

C10_ReadaptIsNoOp ==
    \A f \in Flows : AlreadyAdapted(item[f].response) =>
        /\ adds[f] = <<>>
        /\ pc[f] \in {"encode", "idle"} => outm[f] = item[f].response


\* C11: within one flow and one direction frames are emitted in the order
\* they were received, none duplicated, dropped or reordered while the flow
\* is live; a metadata response being adapted is never overtaken by a later
\* frame of the same half.
IsPrefix(s, t) == Len(s) <= Len(t) /\ SubSeq(t, 1, Len(s)) = s

InHand(f) == IF pc[f] \in {"join", "encode", "raw"} THEN 1 ELSE 0

C11_FramesInOrder ==
    \A f \in Flows :
        /\ IsPrefix(toBroker[f], sent[f].req)
        /\ IsPrefix([k \in DOMAIN RespRead(f) |-> RespRead(f)[k].frame], sent[f].resp)
        /\ Len(toClient[f]) <= Len(RespRead(f))
        /\ \A k \in DOMAIN toClient[f] :
               /\ toClient[f][k][2] = sent[f].resp[k][2]
               /\ RespRead(f)[k].decoded \/ toClient[f][k] = sent[f].resp[k]
        /\ Live(f) =>
               /\ Flatten(SubSeq(sent[f].req, Len(toBroker[f]) + 1, Len(sent[f].req)))
                      = r2l[f] \o remoteIn[f]
               /\ Len(RespRead(f)) = Len(toClient[f]) + InHand(f)
               /\ Flatten(SubSeq(sent[f].resp, Len(RespRead(f)) + 1, Len(sent[f].resp)))
                      = localIn[f]

C11_Witness ==
    \E f \in Flows :
        /\ pc[f] = "join"
        /\ \E i \in DOMAIN adds[f] : adds[f][i].st = "new"
        /\ FrameReady(localIn[f])
        /\ Len(toClient[f]) = 1
        /\ Len(toBroker[f]) >= 1

\* C12: Client::new yields a tunnel client with remote port p only when the
\* dial succeeded, the auth exchange (if a secret is set) succeeded and the
\* reply to Hello is Hello(p); a failed or timed-out dial, a Challenge
\* without a client secret, a client secret without a Challenge, Error, any
\* other message, EOF or a timeout makes it fail, and then start returns no
\* port, the pool gets no entry and no listen loop is spawned.
ReplyAt == IF auth THEN 2 ELSE 1

C12_ClientNewOutcome ==
    /\ cn.st = "ok" =>
           /\ cn.dial = "ok"
           /\ Len(cn.rcvd) = ReplyAt
           /\ auth => cn.rcvd[1].tag = "Challenge"
           /\ cn.rcvd[ReplyAt].tag = "Hello"
           /\ clients[1].remote_port = cn.rcvd[ReplyAt].arg
           /\ adds[0][1].remote_port = cn.rcvd[ReplyAt].arg
    /\ cn.dial \in {"refused", "timeout"} => cn.st = "err"
    /\ (auth /\ Len(cn.rcvd) >= 1 /\ cn.rcvd[1].tag # "Challenge") => cn.st = "err"
    /\ (Len(cn.rcvd) >= ReplyAt /\ cn.rcvd[ReplyAt].tag # "Hello") => cn.st = "err"
    /\ cn.st = "err" =>
           /\ adds[0][1].st = "err"
           /\ pc[0] \in {"join", "failed"}
           /\ ret = NoResult
           /\ connections = EmptyMap
           /\ clients = <<>>
           /\ listen.st = "none"

C12_Witness ==
    /\ ~auth
    /\ cn.rcvd = <<Msg("Challenge", 0)>>
    /\ cn.st = "err"
    /\ pc[0] = "failed"

\* C13: when start succeeds it returns "<rendezvous host>:<remote port>",
\* the port being the one of the rendezvous' Hello reply for the bootstrap
\* tunnel; the pool then maps the bootstrap broker to that port and the
\* listen loop of that tunnel has been spawned.
C13_StartReturnsPublicAddress ==
    /\ pc[0] = "returned" =>
           /\ cn.rcvd[Len(cn.rcvd)].tag = "Hello"
           /\ ret.host = To
           /\ ret.port = cn.rcvd[Len(cn.rcvd)].arg
           /\ Bootstrap \in DOMAIN connections
           /\ connections[Bootstrap] = ret.port
           /\ Url(clients[1]) = Bootstrap
           /\ clients[1].remote_port = ret.port
           /\ clients[1].listening
    /\ pc[0] # "returned" => ret = NoResult

C13_Witness ==
    /\ auth
    /\ pc[0] = "returned"
    /\ ret.port = MinPort + 1
    /\ listen.st = "live"

\* C15: in the live state of the listen loop Heartbeat, Error, Hello and
\* Challenge leave the loop live and spawn no flow, every Connection(uuid)
\* spawns exactly one flow task for that uuid, and EOF ends the loop with Ok.
C15_ListenLoop ==
    [][listen'.n = listen.n + 1 =>
          /\ listen.st = "live"
          /\ listen'.last.tag \in {"Heartbeat", "Error", "Hello", "Challenge"} =>
                 /\ listen'.st = "live"
                 /\ tasks' = tasks
          /\ listen'.last.tag = "Connection" =>
                 /\ listen'.st = "live"
                 /\ tasks' = Append(tasks, [id |-> listen'.last.arg, st |-> "dial"])
          /\ listen'.last.tag = "EOF" =>
                 /\ listen'.st = "ok"
                 /\ tasks' = tasks
      ]_vars

C15_Witness ==
    /\ listen.st = "ok"
    /\ listen.n >= 3
    /\ Len(tasks) = 1

\* C16: a failure inside one data flow ends only that flow: the listen loop
\* and the other flows are left as they are, the loop ends only on EOF or an
\* error of the control channel, and every Connection it received has
\* spawned a flow.
C16_FlowFailureIsolated ==
    [][/\ \A t \in DOMAIN tasks :
              (~FlowEnded(tasks[t].st) /\ tasks'[t].st \in {"err", "panicked"}) =>
                  /\ listen' = listen
                  /\ \A u \in DOMAIN tasks : u # t => tasks'[u] = tasks[u]
       /\ listen'.st \in {"ok", "err"} => listen'.last.tag \in {"EOF", "IoErr"}
       /\ Len(tasks') = Len(listen'.conns)
      ]_vars

C16_Witness ==
    /\ listen.st = "live"
    /\ Len(tasks) >= 2
    /\ tasks[1].st = "err"
    /\ tasks[2].st = "proxy"

\* C17: a live listen loop does not stay blocked on a control channel that
\* has been silent for longer than NETWORK_TIMEOUT: it ends.
C17_SilentChannelEndsLoop ==
    listen.st = "live" => elapsed <= NetworkTimeout

\* C14: the pool holds only brokers that are the bootstrap or were listed in
\* a decoded metadata response, and once the response listing b1, b2, b3
\* has been adapted its key set is exactly {b1, b2, b3}, with pairwise
\* distinct remote ports.
C14_MultiBrokerDiscovery ==
    /\ DOMAIN connections \subseteq {B1, B2, B3}
    /\ \A a, b \in DOMAIN connections : a # b => connections[a] # connections[b]
    /\ \A f \in Flows :
           (Forwarded(f) /\ item[f].response = Md3) =>
               DOMAIN connections = {B1, B2, B3}

C14_Witness ==
    \E f \in Flows :
        /\ Forwarded(f)
        /\ item[f].response = Md3
        /\ Len(toClient[f]) = 1
        /\ Cardinality(DOMAIN connections) = 3

\* C18: no task is suspended at an await while it holds a guard of the pool
\* lock, a write guard excludes every other guard, and whenever some task is
\* between two awaits one of them can take a step: tasks blocked on the lock
\* never wait for a suspended task, with any number of worker threads.
Holds(o) == o \in lock.readers \/ lock.writer = o

Running(o) ==
    \/ pc[o] \in {"scan", "rewrite"}
    \/ /\ pc[o] = "join"
       /\ \/ \A i \in DOMAIN adds[o] : AddFinished(adds[o][i])
          \/ \E i \in DOMAIN adds[o] :
                 adds[o][i].st \in {"connected", "wlocked", "inserted"}

C19_AddConnectionIdempotent ==
    [][\A o \in Owners : \A i \in DOMAIN adds[o] :
          (adds[o][i].st = "new" /\ adds[o][i].url \in DOMAIN connections) =>
              adds'[o][i].st \in {"new", "done"}
      ]_vars

\* C20: the pool holds b before the listen loop of b's tunnel is started:
\* whenever a tunnel client is listening its broker is a key of the pool.
C20_InsertBeforeSpawn ==
    \A c \in DOMAIN clients :
        clients[c].listening => Url(clients[c]) \in DOMAIN connections

\* C21: every data flow is set up in this order, each step only after the
\* previous one succeeded: dial the rendezvous, auth handshake (when a secret
\* is set), send Accept(uuid), dial the local broker, write the bytes the
\* framed reader buffered to the local socket, start the Kafka proxy; the
\* proxy reads no byte of the rendezvous socket before the buffered bytes
\* were written to the broker.
SetupOrder ==
    <<"dial">> \o (IF auth THEN <<"auth">> ELSE <<>>)
        \o <<"accept", "local", "drain", "proxy">>

Undrained(t) == IF "drain" \in Range(tasks[t].steps) THEN <<>> ELSE tasks[t].read_buf

C21_FlowSetupOrder ==
    \A t \in DOMAIN tasks :
        /\ IsPrefix(tasks[t].steps, SetupOrder)
        /\ Msg("Authenticate", 0) \in Range(tasks[t].sent) => "dial" \in Range(tasks[t].steps)
        /\ Msg("Accept", tasks[t].id) \in Range(tasks[t].sent) =>
               /\ "dial" \in Range(tasks[t].steps)
               /\ auth => "auth" \in Range(tasks[t].steps)
        /\ tasks[t].target # KafkaBroker(0, 0) => "accept" \in Range(tasks[t].steps)
        /\ toBroker[t] # <<>> => "local" \in Range(tasks[t].steps)
        /\ pc[t] # "none" => tasks[t].steps = SetupOrder
        /\ tasks[t].st # "err" =>
               Flatten(toBroker[t]) \o r2l[t] \o Undrained(t) \o remoteIn[t]
                   = Flatten(sent[t].req)

C21_Witness ==
    \E t \in DOMAIN tasks :
        /\ auth
        /\ tasks[t].read_buf # <<>>
        /\ pc[t] = "idle"
        /\ Len(toBroker[t]) >= 2
        /\ toBroker[t][1] = tasks[t].read_buf

\* C22: the proxy of a flow ends as soon as one of its halves completes,
\* with Ok at a clean end of stream and with Err at an error: the flow
\* returns what the half that completed first returned, the other half is
\* dropped and forwards no frame afterwards, and a flow one of whose sockets
\* was closed does not run on for ever.
Ended(f) == pc[f] \in {"ok", "failed", "panicked"}

Ends(f) == SelectSeq(hist[f], LAMBDA e : e.kind = "end")

Last(h) == h[Len(h)]

C22_FirstHalfEndsFlow ==
    /\ [](\A f \in Flows :
             /\ Len(Ends(f)) <= 1
             /\ Ends(f) # <<>> => Last(hist[f]).kind = "end"
             /\ pc[f] = "ok" <=> (Ends(f) # <<>> /\ Last(hist[f]).result = "eof")
             /\ Ends(f) # <<>> /\ Last(hist[f]).result = "err" => pc[f] = "failed"
             /\ Ends(f) # <<>> => (r2l[f] = <<>> /\ l2r[f] = <<>>))
    /\ [][\A f \in Flows :
             Ended(f) =>
                 /\ pc'[f] = pc[f]
                 /\ toBroker'[f] = toBroker[f]
                 /\ toClient'[f] = toClient[f]
                 /\ hist'[f] = hist[f]]_vars
    /\ \A f \in Flows :
           (sent[f].reqEnd # "open" \/ sent[f].respEnd # "open") ~> Ended(f)

C22_Witness ==
    /\ pc[1] = "failed"
    /\ Last(hist[1]) = EndEvent("remote_to_local", "err")
    /\ sent[1].respEnd = "open"
    /\ item[1].response.brokers # <<>>
    /\ Len(toClient[1]) = 0
    /\ Len(toBroker[1]) = 1
    /\ FrameReady(localIn[1])

\* C23: when the control channel of a tunnel client yields EOF or an error
\* its listen loop ends (EOF with Ok, an error with Err) and takes no
\* further Connection; the flows it spawned before run on until they end by
\* themselves, and the tunnel clients of the other brokers are not touched.
C23_ControlChannelEnd ==
    /\ [](\A t \in DOMAIN tasks : ~FlowEnded(tasks[t].st) => ENABLED TaskStep(t))
    /\ [][\A c \in DOMAIN listen :
             /\ (listen[c].st = "live" /\ listen'[c].n = listen[c].n + 1) =>
                    /\ listen'[c].last = EOF => listen'[c].st = "ok"
                    /\ listen'[c].last = IoErr => listen'[c].st = "err"
                    /\ listen'[c].st # "live" =>
                           /\ listen'[c].last \in {EOF, IoErr}
                           /\ tasks' = tasks
                           /\ clients' = clients
                           /\ \A d \in DOMAIN listen : d # c => listen'[d] = listen[d]
             /\ listen[c].st # "live" =>
                    /\ listen'[c] = listen[c]
                    /\ \A t \in DOMAIN tasks' :
                           tasks'[t].client = c => t \in DOMAIN tasks
         ]_vars

C23_Witness ==
    /\ listen[1].st = "err"
    /\ listen[2].st = "live"
    /\ listen[2].conns # <<>>
    /\ \E t, u \in DOMAIN tasks :
           /\ tasks[t].client = 1
           /\ tasks[t].st = "proxy"
           /\ pc[t] = "idle"
           /\ tasks[u].client = 2
           /\ tasks[u].st = "accept"

\* C24: every entry of the inflight table of a flow has api key Metadata and
\* stands for a Metadata request read on the request-carrying half (with
\* the version of the latest one); an entry is there exactly from that read
\* until a response frame with its correlation id is read, so a second
\* response with the same correlation id, with no new request in between,
\* is forwarded as opaque bytes.
MetadataReq(e, c) ==
    e.kind = "req" /\ e.api_key = MetadataKey /\ e.correlation_id = c

RespFor(e, c) == e.kind = "resp" /\ e.correlation_id = c

\* The reads of Metadata requests with correlation id c that no response
\* read later has consumed.
Unanswered(h, c) ==
    {j \in DOMAIN h : /\ MetadataReq(h[j], c)
                      /\ \A m \in (j + 1)..Len(h) : ~RespFor(h[m], c)}

Max(S) == CHOOSE x \in S : \A y \in S : y <= x

CorrelationIds == {req[4] : req \in CodecRequests}

\* Position of the k-th read among the responses read.
RespIndex(h, k) == Cardinality({j \in 1..k : h[j].kind = "resp"})

C24_InflightEntries ==
    \A f \in Flows :
        /\ \A c \in DOMAIN inflight[f] : inflight[f][c].api_key = MetadataKey
        /\ DOMAIN inflight[f] \subseteq CorrelationIds
        /\ \A c \in CorrelationIds :
               /\ c \in DOMAIN inflight[f] <=> Unanswered(hist[f], c) # {}
               /\ c \in DOMAIN inflight[f] =>
                      inflight[f][c].api_version
                          = hist[f][Max(Unanswered(hist[f], c))].frame[3]
        /\ \A j, k \in DOMAIN hist[f] :
               (/\ j < k
                /\ hist[f][j].kind = "resp"
                /\ RespFor(hist[f][k], hist[f][j].correlation_id)
                /\ \A m \in (j + 1)..(k - 1) :
                       ~MetadataReq(hist[f][m], hist[f][j].correlation_id)) =>
                   /\ ~hist[f][k].decoded
                   /\ Len(toClient[f]) >= RespIndex(hist[f], k) =>
                          toClient[f][RespIndex(hist[f], k)] = hist[f][k].frame

C24_Witness ==
    /\ Len(toClient[1]) = 2
    /\ toClient[1][1] # MdResp
    /\ toClient[1][2] = MdResp
    /\ inflight[1] = EmptyMap
    /\ toBroker[1] = <<Req(MetadataKey, 1, 1)>>

\* C25: with a secret the auth handshake is made exactly once on the control
\* connection and exactly once on each data connection, and it is complete
\* before Hello, respectively Accept(uuid), is sent; without a secret no
\* Authenticate message is ever sent.
Handshake == IF auth THEN <<Msg("Authenticate", 0)>> ELSE <<>>

Authenticates(msgs) == Len(SelectSeq(msgs, LAMBDA m : m.tag = "Authenticate"))

C25_HandshakeOncePerConnection ==
    /\ Authenticates(cn.sent) <= (IF auth THEN 1 ELSE 0)
    /\ Msg("Hello", 0) \in Range(cn.sent) =>
           /\ cn.sent = Handshake \o <<Msg("Hello", 0)>>
           /\ auth => cn.rcvd[1].tag = "Challenge"
    /\ \A t \in DOMAIN tasks :
           /\ Authenticates(tasks[t].sent) <= (IF auth THEN 1 ELSE 0)
           /\ (\E m \in Range(tasks[t].sent) : m.tag = "Accept") =>
                  /\ tasks[t].sent = Handshake \o <<Msg("Accept", tasks[t].id)>>
                  /\ auth => "auth" \in Range(tasks[t].steps)
           /\ "accept" \in Range(tasks[t].steps) =>
                  tasks[t].sent = Handshake \o <<Msg("Accept", tasks[t].id)>>

C25_Witness ==
    /\ auth
    /\ cn.sent = <<Msg("Authenticate", 0), Msg("Hello", 0)>>
    /\ Len(tasks) = 2
    /\ \A t \in DOMAIN tasks :
           tasks[t].sent = <<Msg("Authenticate", 0), Msg("Accept", tasks[t].id)>>
    /\ tasks[1].st = "proxy"

\* C26: a response frame whose correlation id matches a registered Metadata
\* request of an api_version the implementation cannot decode is forwarded
\* unchanged as opaque bytes and the flow stays live: it neither aborts the
\* flow nor crashes its task.
RegisteredBy(h, k) ==
    Max({j \in 1..(k - 1) : MetadataReq(h[j], h[k].correlation_id)})

C26_UnknownVersionPassthrough ==
    \A f \in Flows : \A k \in DOMAIN hist[f] :
        (/\ hist[f][k].kind = "resp"
         /\ hist[f][k].decoded
         /\ hist[f][RegisteredBy(hist[f], k)].frame[3] \notin SupportedVersions) =>
            /\ pc[f] \notin {"failed", "panicked"}
            /\ Len(toClient[f]) >= RespIndex(hist[f], k) =>
                   toClient[f][RespIndex(hist[f], k)] = hist[f][k].frame

\* C27: a decoded metadata response is re-emitted as one frame: header and
\* body encoded at the api_version the matching request registered (the one
\* it was decoded at), behind a length prefix that counts exactly the
\* encoded header and body; the bytes of no other frame are altered.
C27_ReencodedFrame ==
    \A f \in Flows :
        /\ IsPrefix(toBroker[f], sent[f].req)
        /\ Len(toClient[f]) <= Len(RespRead(f))
        /\ \A k \in DOMAIN hist[f] :
               (hist[f][k].kind = "resp" /\ Len(toClient[f]) >= RespIndex(hist[f], k)) =>
                   LET out == toClient[f][RespIndex(hist[f], k)]
                       in == hist[f][k].frame
                   IN  IF hist[f][k].decoded
                       THEN LET version == hist[f][RegisteredBy(hist[f], k)].frame[3]
                            IN  /\ out[1] = Len(out) - 1
                                /\ CanDecode(out, version)
                                /\ EncodeMetadata(DecodeMetadata(out, version)) = out
                                /\ DecodeMetadata(out, version).header
                                       = DecodeMetadata(in, version).header
                       ELSE out = in

C27_Witness ==
    /\ Len(toClient[1]) = 2
    /\ \E j, k \in DOMAIN RespRead(1) :
           /\ RespRead(1)[j].decoded
           /\ RespRead(1)[k].decoded
           /\ Len(toClient[1][j]) # Len(toClient[1][k])
           /\ toClient[1][j][2] = 1
           /\ toClient[1][k][2] = 4

\* C28: remote_to_local inserts the inflight entry of a Metadata request
\* before it writes any byte of the frame to the broker socket: a request
\* the broker can see is registered or has already been answered, and under
\* every interleaving of the two halves the first response read for it
\* finds its entry.
Written(f, c) ==
    \E i \in DOMAIN toBroker[f] :
        toBroker[f][i][2] = MetadataKey /\ toBroker[f][i][4] = c

C28_RegisteredBeforeWritten ==
    \A f \in Flows :
        /\ \A i \in DOMAIN toBroker[f] :
               toBroker[f][i][2] = MetadataKey =>
                   \/ /\ toBroker[f][i][4] \in DOMAIN inflight[f]
                      /\ inflight[f][toBroker[f][i][4]].api_key = MetadataKey
                   \/ \E k \in DOMAIN hist[f] : RespFor(hist[f][k], toBroker[f][i][4])
        /\ \A k \in DOMAIN hist[f] :
               (/\ hist[f][k].kind = "resp"
                /\ Written(f, hist[f][k].correlation_id)
                /\ \A j \in 1..(k - 1) :
                       ~RespFor(hist[f][j], hist[f][k].correlation_id)) =>
                   hist[f][k].decoded

\* A response was decoded while the request half held another frame between
\* its read and its write.
C28_Witness ==
    /\ r2l[1] # <<>>
    /\ r2l[1][2] = MetadataKey
    /\ toBroker[1] # <<>>
    /\ \E k \in DOMAIN hist[1] :
           /\ hist[1][k].kind = "resp"
           /\ hist[1][k].decoded
           /\ k > 2
           /\ hist[1][k - 1].kind = "req"

\* C29: routing correctness.  Every pool entry b -> p names a port the
\* rendezvous assigned, in a successful Hello handshake, to a tunnel
\* client whose local target is b, and no tunnel client holding port p has
\* another target: the flows announced for p are dialed to b.
C29_RoutingCorrect ==
    \A b \in DOMAIN connections :
        /\ \E c \in DOMAIN clients :
               /\ clients[c].remote_port = connections[b]
               /\ Url(clients[c]) = b
        /\ \A c \in DOMAIN clients :
               clients[c].remote_port = connections[b] => Url(clients[c]) = b

====
